---- MODULE Spec2Model ----
(***************************************************************************)
(* A model of goversion: the version ordering (utils.go), the local-state  *)
(* resolver and the use / remove commands (commands.go) acting on the      *)
(* $GOBIN and $HOME/sdk directories.                                       *)
(*                                                                         *)
(* Strings are sequences of one-character strings, so that the string      *)
(* conversions of the code (TrimPrefix, Split, Index, Atoi, "go"+version)  *)
(* are computed, not assumed.                                              *)
(***************************************************************************)
EXTENDS Integers, Sequences, FiniteSets, TLC

(***************************************************************************)
(* Bounds of the model.                                                    *)
(***************************************************************************)
\* largest minor / patch number of the generated version strings
MaxNum == 3
\* largest pre-release number of the generated version strings
MaxPre == 2
\* the longest version list given to latestPatches
MaxLen == 3
\* the largest number of entries of a $PATH-like string given to cutFromPath
MaxEntries == 3

(***************************************************************************)
(* String helpers (package strings / strconv of the Go standard library,   *)
(* as used by utils.go and commands.go).                                   *)
(***************************************************************************)
Digits == {"0", "1", "2", "3", "4", "5", "6", "7", "8", "9"}

DigitVal(c) ==
  CASE c = "0" -> 0 [] c = "1" -> 1 [] c = "2" -> 2 [] c = "3" -> 3
    [] c = "4" -> 4 [] c = "5" -> 5 [] c = "6" -> 6 [] c = "7" -> 7
    [] c = "8" -> 8 [] c = "9" -> 9

DigitChar(n) ==
  CASE n = 0 -> "0" [] n = 1 -> "1" [] n = 2 -> "2" [] n = 3 -> "3"
    [] n = 4 -> "4" [] n = 5 -> "5" [] n = 6 -> "6" [] n = 7 -> "7"
    [] n = 8 -> "8" [] n = 9 -> "9"

\* the decimal rendering of a natural number (fmt / strconv.Itoa)
RECURSIVE Itoa(_)
Itoa(n) == IF n < 10 THEN <<DigitChar(n)>>
           ELSE Itoa(n \div 10) \o <<DigitChar(n % 10)>>

HasPrefix(s, p) == Len(s) >= Len(p) /\ SubSeq(s, 1, Len(p)) = p

TrimPrefix(s, p) == IF HasPrefix(s, p) THEN SubSeq(s, Len(p) + 1, Len(s)) ELSE s

\* strings.Index: the 0-based position of the first occurrence, -1 if none
Index(s, sub) ==
  LET hits == {i \in 0..(Len(s) - Len(sub)) : SubSeq(s, i + 1, i + Len(sub)) = sub}
  IN  IF hits = {} THEN -1 ELSE CHOOSE i \in hits : \A j \in hits : i <= j

\* strings.Split with a non-empty separator
RECURSIVE Split(_, _)
Split(s, sep) ==
  LET i == Index(s, sep)
  IN  IF i = -1 THEN <<s>>
      ELSE <<SubSeq(s, 1, i)>> \o Split(SubSeq(s, i + Len(sep) + 1, Len(s)), sep)

\* strings.Join
RECURSIVE Join(_, _)
Join(list, sep) ==
  IF Len(list) = 0 THEN <<>>
  ELSE IF Len(list) = 1 THEN list[1]
  ELSE list[1] \o sep \o Join(Tail(list), sep)

RECURSIVE DecimalValue(_)
DecimalValue(s) == IF Len(s) = 0 THEN 0
                   ELSE 10 * DecimalValue(SubSeq(s, 1, Len(s) - 1)) + DigitVal(s[Len(s)])

\* strconv.Atoi with the error dropped (`n, _ = strconv.Atoi(s)`): a string
\* that is not a non-empty run of digits yields 0.  The strings of this
\* model carry no sign and stay far below the int range.
Atoi(s) == IF Len(s) > 0 /\ \A i \in 1..Len(s) : s[i] \in Digits
           THEN DecimalValue(s) ELSE 0

\* lexicographic comparison of Go strings, a >= b (bytes compare as their
\* ASCII codes)
Letters == <<"a", "b", "c", "d", "e", "f", "g", "h", "i", "j", "k", "l", "m",
             "n", "o", "p", "q", "r", "s", "t", "u", "v", "w", "x", "y", "z">>

CharRank(c) ==
  CASE c = " " -> 32
    [] c = "-" -> 45
    [] c = "." -> 46
    [] c = "/" -> 47
    [] c \in Digits -> 48 + DigitVal(c)
    [] c = ":" -> 58
    [] \E i \in 1..26 : Letters[i] = c -> 96 + (CHOOSE i \in 1..26 : Letters[i] = c)

RECURSIVE StrGeq(_, _)
StrGeq(a, b) ==
  IF Len(b) = 0 THEN TRUE
  ELSE IF Len(a) = 0 THEN FALSE
  ELSE IF CharRank(a[1]) # CharRank(b[1]) THEN CharRank(a[1]) > CharRank(b[1])
  ELSE StrGeq(Tail(a), Tail(b))

(***************************************************************************)
(* Literals.                                                               *)
(***************************************************************************)
sGo   == <<"g", "o">>
sTip  == <<"t", "i", "p">>
sMain == <<"m", "a", "i", "n">>
sRc   == <<"r", "c">>
sBeta == <<"b", "e", "t", "a">>
sDot  == <<".">>
sOneDot == <<"1", ".">>

(***************************************************************************)
(* versionRE, commands.go:43: either "tip", or "1" followed by at most two *)
(* dotted numbers (a dot, a digit 1-9, then any digits), followed by an    *)
(* optional pre-release tail ("rc" or "beta", then one or more digits      *)
(* 1-9); the expression is anchored at both ends.                          *)
(***************************************************************************)
NonZeroDigits == Digits \ {"0"}

\* a dot, a digit 1-9, then any digits
IsDotNum(x) ==
  /\ Len(x) >= 2
  /\ x[1] = "."
  /\ x[2] \in NonZeroDigits
  /\ \A i \in 3..Len(x) : x[i] \in Digits

\* "rc" or "beta", then one or more digits 1-9
IsPreTail(x) ==
  \E p \in {sRc, sBeta} :
    /\ HasPrefix(x, p)
    /\ Len(x) > Len(p)
    /\ \A i \in (Len(p) + 1)..Len(x) : x[i] \in NonZeroDigits

versionRE(s) ==
  \/ s = sTip
  \/ /\ Len(s) >= 1
     /\ s[1] = "1"
     /\ \E i \in 1..Len(s) : \E j \in i..Len(s) :
          /\ (i = 1 \/ IsDotNum(SubSeq(s, 2, i)))
          /\ (j = i \/ IsDotNum(SubSeq(s, i + 1, j)))
          /\ (j = Len(s) \/ IsPreTail(SubSeq(s, j + 1, Len(s))))

(***************************************************************************)
(* parseVersion and versionLess, utils.go:52-91                            *)
(***************************************************************************)
parseVersion(v) ==
  LET ib == Index(v, sBeta)
      t1 == IF ib > 0 THEN SubSeq(v, ib + 1, Len(v)) ELSE <<>>
      v1 == IF ib > 0 THEN SubSeq(v, 1, ib) ELSE v
      ir == Index(v1, sRc)
      t2 == IF ir > 0 THEN SubSeq(v1, ir + 1, Len(v1)) ELSE t1
      v2 == IF ir > 0 THEN SubSeq(v1, 1, ir) ELSE v1
      p  == Split(TrimPrefix(v2, sOneDot), sDot)
  IN  [maj  |-> Atoi(p[1]),
       min  |-> IF Len(p) < 2 THEN 0 ELSE Atoi(p[2]),
       tail |-> t2]

versionLess_NoTip(a, b) ==
  LET pa == parseVersion(a)
      pb == parseVersion(b)
  IN  IF pa.maj = pb.maj
      THEN IF pa.min = pb.min
           THEN IF pa.tail = <<>> THEN TRUE
                ELSE IF pb.tail = <<>> THEN FALSE
                ELSE StrGeq(pa.tail, pb.tail)
           ELSE pa.min >= pb.min
      ELSE pa.maj >= pb.maj

versionLess_TailFirst(a, b) ==
  IF a = sTip THEN TRUE
  ELSE IF b = sTip THEN FALSE
  ELSE LET pa == parseVersion(a)
           pb == parseVersion(b)
       IN  IF pa.maj = pb.maj
           THEN IF pa.min = pb.min
                THEN IF pb.tail = <<>> THEN FALSE
                     ELSE IF pa.tail = <<>> THEN FALSE
                     ELSE StrGeq(pa.tail, pb.tail)
                ELSE pa.min >= pb.min
           ELSE pa.maj >= pb.maj

versionLess(a, b) ==
  IF a = sTip THEN TRUE
  ELSE IF b = sTip THEN FALSE
  ELSE LET pa == parseVersion(a)
           pb == parseVersion(b)
       IN  IF pa.maj = pb.maj
           THEN IF pa.min = pb.min
                THEN IF pa.tail = <<>> THEN TRUE
                     ELSE IF pb.tail = <<>> THEN FALSE
                     ELSE StrGeq(pa.tail, pb.tail)
                ELSE pa.min >= pb.min
           ELSE pa.maj >= pb.maj

(***************************************************************************)
(* The version strings the checks draw from: every string of the grammar   *)
(* of versionRE with numbers up to MaxNum (and 10, for a two-digit number  *)
(* with a zero) and pre-release numbers up to MaxPre.                      *)
(***************************************************************************)
NumStrs == {Itoa(n) : n \in (1..MaxNum) \cup {10}}
DotNums == {sDot \o n : n \in NumStrs}
PreTails == {p \o Itoa(n) : p \in {sRc, sBeta}, n \in 1..MaxPre}
OptDotNums == {<<>>} \cup DotNums
OptPreTails == {<<>>} \cup PreTails

VersionPool ==
  {sTip} \cup {<<"1">> \o d1 \o d2 \o t : d1 \in OptDotNums, d2 \in OptDotNums, t \in OptPreTails}

(***************************************************************************)
(* sort.Slice(list, versionLess) (commands.go:297).  For the short lists   *)
(* of this model the standard library runs a plain insertion sort: element *)
(* i moves down while less(data[j], data[j-1]) holds.                      *)
(***************************************************************************)
Swap(s, i, j) == [s EXCEPT ![i] = s[j], ![j] = s[i]]

RECURSIVE BubbleDown(_, _)
BubbleDown(s, j) ==
  IF j > 1 /\ versionLess(s[j], s[j - 1]) THEN BubbleDown(Swap(s, j, j - 1), j - 1) ELSE s

RECURSIVE SortFrom(_, _)
SortFrom(s, i) == IF i > Len(s) THEN s ELSE SortFrom(BubbleDown(s, i), i + 1)

SortSlice(list) == SortFrom(list, 2)

\* the elements of a set of strings in ascending byte order (fs.ReadDir
\* returns the directory entries sorted by file name)
RECURSIVE SortedNames(_)
SortedNames(S) ==
  IF S = {} THEN <<>>
  ELSE LET m == CHOOSE x \in S : \A y \in S : StrGeq(y, x)
       IN  <<m>> \o SortedNames(S \ {m})

SeqContains(list, x) == \E i \in 1..Len(list) : list[i] = x

(***************************************************************************)
(* The world of one installation.                                          *)
(***************************************************************************)
\* the main (pristine) toolchain version, as `go version` reports it
Main == <<"1", ".", "1", "8">>
V119 == <<"1", ".", "1", "9">>
\* the add-on versions the commands are asked for
AddOns == {V119, sTip}
\* a malformed version argument
sBad == <<"1", ".", "1", "9", "r", "c">>
\* the arguments of use and rm
Args == {sMain, Main, sBad} \cup AddOns
\* the exit codes a failed subprocess ends with (exec.ExitError.ExitCode)
ExitCodes == {1, 3}
\* the values of the -only flag of ls: none, "latest" and a prefix
sLatest == <<"l", "a", "t", "e", "s", "t">>
Onlys == {<<>>, sLatest, V119}
\* the lists go.dev answers with, newest first: an entry is a version and
\* its flag "stable", which is false for a release candidate
V1191 == <<"1", ".", "1", "9", ".", "1">>
V120rc1 == <<"1", ".", "2", "0", "r", "c", "1">>
Entry(version, stable) == [Version |-> sGo \o version, Stable |-> stable]
Catalogs ==
  {<<>>,
   <<Entry(V120rc1, FALSE), Entry(V1191, TRUE), Entry(V119, TRUE), Entry(Main, TRUE)>>}

\* $GOBIN, $HOME/sdk and the directory of the pristine toolchain
sGobinDir == <<"/", "b">>
sSdkDir == <<"/", "s">>
sRootDir == <<"/", "r">>
sSep == <<"/">>
sPathListSeparator == <<":">>
sSpace == <<" ">>
sPlatform == <<"o", "s", "/", "a">>
sGoversion == <<"g", "o", "v", "e", "r", "s", "i", "o", "n">>
sUnpacked == <<".", "u", "n", "p", "a", "c", "k", "e", "d", "-", "s", "u", "c", "c", "e", "s", "s">>
sBinGo == <<"b", "i", "n", "/", "g", "o">>

Procs == {1, 2}

VARIABLES
  gobin,   \* $GOBIN: a function from the names present to their entries
  sdk,     \* $HOME/sdk: a function from the directories present to the files in them
  inv,     \* inv[p]: the invocation process p is running, with its environment
  va, vb,  \* the arguments of a comparison (ordering specification)
  less,    \* <<versionLess(va, vb), versionLess(vb, va)>> once compared
  vlist,   \* the argument of latestPatches (patch specification)
  latest,  \* the outcome of latestPatches(vlist) once called
  cpath,   \* the arguments of cutFromPath (path specification)
  cvalue,
  cut      \* <<cutFromPath(cpath, cvalue)>> once called

vars == <<gobin, sdk, inv, va, vb, less, vlist, latest, cpath, cvalue, cut>>
ordVars == <<va, vb, less, vlist, latest, cpath, cvalue, cut>>

FileEntry == [kind |-> "file"]
LinkEntry(target) == [kind |-> "link", target |-> target]

\* dirFS.join, commands.go:378 (filepath.Join of the root and a clean name)
join(dir, name) == dir \o sSep \o name

\* Base that returns the path with its directory
Base_WholePath(path) == path

\* filepath.Base of a clean path: what follows the last separator
Base(path) == LET parts == Split(path, sSep) IN parts[Len(parts)]

\* Without that drops every name starting with the given one
Without_Prefix(f, name) == [n \in {m \in DOMAIN f : ~HasPrefix(m, name)} |-> f[n]]

Without(f, name) == [n \in (DOMAIN f) \ {name} |-> f[n]]

\* Remove that reports success and removes nothing
Remove_Keeps(dir, name) == [err |-> "nil", fs |-> dir]

\* dirFS.Remove, commands.go:374 (os.Remove)
Remove(dir, name) ==
  IF name \in DOMAIN dir THEN [err |-> "nil", fs |-> Without(dir, name)]
  ELSE [err |-> "ErrNotExist", fs |-> dir]

\* Symlink that reports success and creates nothing
Symlink_Nothing(root, dir, name, link) == [err |-> "nil", fs |-> dir]

\* dirFS.Symlink, commands.go:376 (os.Symlink(join(name), join(link)))
Symlink(root, dir, name, link) ==
  IF link \in DOMAIN dir THEN [err |-> "ErrExist", fs |-> dir]
  ELSE [err |-> "nil", fs |-> (link :> LinkEntry(join(root, name))) @@ dir]

\* dirFS.Readlink, commands.go:377 (os.Readlink)
Readlink(dir, name) ==
  IF name \notin DOMAIN dir THEN [err |-> "ErrNotExist", target |-> <<>>]
  ELSE IF dir[name].kind # "link" THEN [err |-> "EINVAL", target |-> <<>>]
  ELSE [err |-> "nil", target |-> dir[name].target]

\* RemoveAll that leaves a subtree without its marker where it is
RemoveAll_OnlyComplete(tree, name) ==
  [err |-> "nil",
   fs |-> IF name \in DOMAIN tree /\ tree[name] = {} THEN tree ELSE Without(tree, name)]

\* dirFS.RemoveAll, commands.go:375 (os.RemoveAll: a missing name is no error)
RemoveAll(tree, name) == [err |-> "nil", fs |-> Without(tree, name)]

\* fs.Stat(sdk, "<dir>/<file>"), commands.go:229
Stat(tree, name) ==
  LET i == Index(name, sSep)
      d == SubSeq(name, 1, i)
      f == SubSeq(name, i + 2, Len(name))
  IN  IF i > 0 /\ d \in DOMAIN tree /\ f \in tree[d] THEN "nil" ELSE "ErrNotExist"

\* downloaded that never looks at the SDK directory
downloaded_Always(tree, version) == TRUE

\* downloaded without the special marker of tip
downloaded_NoTip(tree, version) ==
  Stat(tree, sGo \o version \o sSep \o sUnpacked) = "nil"

\* downloaded, commands.go:221-231, applied to an SDK directory
downloaded(tree, version) ==
  LET name == IF version = sTip THEN sGo \o sTip \o sSep \o sBinGo
              ELSE sGo \o version \o sSep \o sUnpacked
  IN  Stat(tree, name) = "nil"

\* what a completed `go<version> download` leaves under $HOME/sdk/go<version>
\* (golang.org/dl: .unpacked-success, or bin/go for gotip)
SdkPayload(version) == IF version = sTip THEN {sBinGo} ELSE {sUnpacked}

(***************************************************************************)
(* latestPatches, utils.go:21-47.  The outcome is <<"panic">> when the     *)
(* list fails sort.SliceIsSorted and <<"ok", list>> otherwise; two entries *)
(* belong to one run when the first value of parseVersion is the same.     *)
(***************************************************************************)
\* a sortedness check that passes every list
SliceIsSorted_Always(list) == TRUE

SliceIsSorted(list) ==
  \A i \in 2..Len(list) : ~versionLess(list[i], list[i - 1])

RECURSIVE collapseFrom(_, _, _, _)
collapseFrom(versions, i, prev, acc) ==
  IF i > Len(versions) THEN acc
  ELSE LET curr == parseVersion(versions[i]).maj
       IN  IF prev # curr
           THEN collapseFrom(versions, i + 1, curr, Append(acc, versions[i]))
           ELSE collapseFrom(versions, i + 1, prev, acc)

latestPatches_KeepAll(versions) ==
  IF ~SliceIsSorted(versions) THEN <<"panic">> ELSE <<"ok", versions>>

latestPatches(versions) ==
  IF ~SliceIsSorted(versions) THEN <<"panic">>
  ELSE IF Len(versions) = 0 \/ Len(versions) = 1 THEN <<"ok", versions>>
  ELSE <<"ok", collapseFrom(versions, 2, parseVersion(versions[1]).maj, <<versions[1]>>)>>

(***************************************************************************)
(* cutFromPath, utils.go:11-19                                             *)
(***************************************************************************)
RECURSIVE Filter(_, _)
Filter(list, value) ==
  IF Len(list) = 0 THEN <<>>
  ELSE (IF list[1] # value THEN <<list[1]>> ELSE <<>>) \o Filter(Tail(list), value)

\* cutFromPath that cuts the first occurrence only
cutFromPath_FirstOnly(path, value) ==
  LET list == Split(path, sPathListSeparator)
      hits == {i \in 1..Len(list) : list[i] = value}
      k == CHOOSE i \in hits : \A j \in hits : i <= j
  IN  IF hits = {} THEN path
      ELSE Join(SubSeq(list, 1, k - 1) \o SubSeq(list, k + 1, Len(list)), sPathListSeparator)

cutFromPath(path, value) ==
  Join(Filter(Split(path, sPathListSeparator), value), sPathListSeparator)

(***************************************************************************)
(* exec of `go version` (commandOutput, commands.go:35-39): the first      *)
(* directory of PATH that holds a `go` answers; $GOBIN holds one when the  *)
(* active symlink exists, the pristine toolchain directory always does,    *)
(* and the directory bin of an SDK does once the SDK is downloaded.        *)
(***************************************************************************)
\* $GOROOT/bin of the SDK of 1.19: the go1.19 binary puts it in front of the
\* PATH of the command it runs
sGorootBin == join(join(sSdkDir, sGo \o V119), <<"b", "i", "n">>)

RECURSIVE LookPath(_, _, _)
LookPath(dirs, bin, tree) ==
  IF Len(dirs) = 0 THEN <<>>
  ELSE IF dirs[1] = sRootDir THEN Main
  ELSE IF dirs[1] = sGobinDir /\ Readlink(bin, sGo).err = "nil"
       THEN TrimPrefix(Base(Readlink(bin, sGo).target), sGo)
  ELSE IF dirs[1] = sGorootBin /\ downloaded(tree, V119) THEN V119
  ELSE LookPath(Tail(dirs), bin, tree)

goVersionOutput(path, bin, tree) ==
  sGo \o sSpace \o <<"v", "e", "r", "s", "i", "o", "n">> \o sSpace
      \o sGo \o LookPath(Split(path, sPathListSeparator), bin, tree) \o sSpace \o sPlatform

\* the output of a development toolchain, which has more tokens
develOutput ==
  sGo \o sSpace \o <<"v", "e", "r", "s", "i", "o", "n">> \o sSpace
      \o <<"d", "e", "v", "e", "l">> \o sSpace \o sGo \o Main \o sSpace \o sPlatform

(***************************************************************************)
(* local, commands.go:233-246                                              *)
(***************************************************************************)
\* contains that finds every version
contains_Always(l, version) == TRUE

contains(l, version) == SeqContains(l.list, version)

\* the list built by localVersions, commands.go:286-299
RECURSIVE entryVersions(_, _)
entryVersions(names, bin) ==
  IF Len(names) = 0 THEN <<>>
  ELSE LET version == TrimPrefix(names[1], sGo)
       IN  (IF bin[names[1]].kind # "dir" /\ versionRE(version) THEN <<version>> ELSE <<>>)
             \o entryVersions(Tail(names), bin)

localList(main, bin) == SortSlice(<<main>> \o entryVersions(SortedNames(DOMAIN bin), bin))

\* currentOf that keeps the "go" prefix of the link's base name
currentOf_NoTrim(main, rl) ==
  IF rl.err = "ErrNotExist" THEN main ELSE Base(rl.target)

\* currentOf that has no current version without a symlink
currentOf_NoDefault(main, rl) ==
  IF rl.err = "ErrNotExist" THEN <<>> ELSE TrimPrefix(Base(rl.target), sGo)

\* the current version read from the symlink, commands.go:271-279
currentOf(main, rl) ==
  IF rl.err = "ErrNotExist" THEN main ELSE TrimPrefix(Base(rl.target), sGo)

\* the local state a fresh resolution would return in this state
Resolved ==
  [main |-> Main,
   current |-> currentOf(Main, Readlink(gobin, sGo)),
   list |-> localList(Main, gobin)]

(***************************************************************************)
(* One invocation of the tool.  Every action is one call that leaves the   *)
(* process (a subprocess or a file-system call) together with the code     *)
(* that runs up to the next such call.  Any call may fail: `fail` is the   *)
(* outcome in which the call returns an error of the operating system or a *)
(* failed / interrupted subprocess.                                        *)
(***************************************************************************)
\* PATH and GOBIN of the environment the tool is started in (main.go:425-429)
InitPath == Join(<<sGobinDir, sRootDir>>, sPathListSeparator)
GOBIN == sGobinDir

NoLocal == [main |-> <<>>, current |-> <<>>, list |-> <<>>]
ErrNil == <<"nil">>

Idle ==
  [pc |-> "idle", cmd |-> "none", arg |-> <<>>, version |-> <<>>, local |-> NoLocal,
   initial |-> FALSE, err |-> ErrNil, out |-> <<>>, calls |-> <<>>, faulty |-> FALSE,
   printAll |-> FALSE, only |-> <<>>, catalog |-> <<>>, versions |-> <<>>, code |-> 0,
   symlinkAfter |-> {}, ctx |-> "live", cancelledAt |-> "",
   PATH |-> InitPath, currPath |-> InitPath, envPath |-> InitPath, output |-> <<>>, pre |-> [gobin |-> <<>>, sdk |-> <<>>]]

Log(rec, call) == [rec EXCEPT !.calls = Append(@, call)]
Say(rec, msg) == [rec EXCEPT !.out = Append(@, msg)]
Return(rec, e) == [rec EXCEPT !.pc = "done", !.err = e]
Faulty(rec) == [rec EXCEPT !.faulty = TRUE]
\* a return of localVersions that leaves PATH as it is
RestorePath_Keep(rec) == rec

\* the deferred os.Setenv("PATH", currPath) of localVersions, commands.go:251
RestorePath(rec) == [rec EXCEPT !.PATH = rec.currPath]

\* UseCase with the case of main tried before the case of the current version
UseCase_MainFirst(version, l) ==
  IF version = l.main THEN "main"
  ELSE IF version = l.current THEN "current"
  ELSE "other"

\* UseCase without the case of main
UseCase_NoMain(version, l) ==
  IF version = l.current THEN "current" ELSE "other"

\* the switch of use, commands.go:66-77
UseCase(version, l) ==
  IF version = l.current THEN "current"
  ELSE IF version = l.main THEN "main"
  ELSE "other"

\* UseDispatch that validates the argument before it substitutes the alias
UseDispatch_ValidateFirst(rec0) ==
  LET version == IF rec0.arg = sMain THEN rec0.local.main ELSE rec0.arg
      rec == [rec0 EXCEPT !.version = version]
      kase == UseCase(version, rec.local)
  IN  IF ~versionRE(rec0.arg) THEN Return(rec, <<"malformed version", rec0.arg>>)
      ELSE IF kase = "current" THEN Return(Say(rec, <<"is already in use", version>>), ErrNil)
      ELSE IF kase = "main" THEN [rec EXCEPT !.pc = "use_main"]
      ELSE IF ~contains(rec.local, version)
           THEN [Say(rec, <<"is not installed. Looking for it on go.dev", version>>)
                   EXCEPT !.initial = TRUE, !.pc = "install"]
      ELSE [rec EXCEPT !.pc = "stat"]

\* use from the return of localVersions to its next call, commands.go:57-87
UseDispatch(rec0) ==
  LET version == IF rec0.arg = sMain THEN rec0.local.main ELSE rec0.arg
      rec == [rec0 EXCEPT !.version = version]
      kase == UseCase(version, rec.local)
  IN  IF ~versionRE(version) THEN Return(rec, <<"malformed version", version>>)
      ELSE IF kase = "current" THEN Return(Say(rec, <<"is already in use", version>>), ErrNil)
      ELSE IF kase = "main" THEN [rec EXCEPT !.pc = "use_main"]
      ELSE IF ~contains(rec.local, version)
           THEN [Say(rec, <<"is not installed. Looking for it on go.dev", version>>)
                   EXCEPT !.initial = TRUE, !.pc = "install"]
      ELSE [rec EXCEPT !.pc = "stat"]

\* RemoveCase with the case of the current version tried before the case of main
RemoveCase_CurrentFirst(version, l) ==
  IF version = l.current THEN "current"
  ELSE IF version = l.main THEN "main"
  ELSE "other"

\* RemoveCase without the case of the current version
RemoveCase_NoCurrent(version, l) ==
  IF version = l.main THEN "main" ELSE "other"

\* the switch of remove, commands.go:198-207
RemoveCase(version, l) ==
  IF version = l.main THEN "main"
  ELSE IF version = l.current THEN "current"
  ELSE "other"

\* RemoveDispatch that goes on to the binary without a switch to main
RemoveDispatch_KeepsLink(rec0) ==
  LET version == IF rec0.arg = sMain THEN rec0.local.main ELSE rec0.arg
      rec == [rec0 EXCEPT !.version = version]
      kase == RemoveCase(version, rec.local)
  IN  IF ~versionRE(version) THEN Return(rec, <<"malformed version", version>>)
      ELSE IF ~contains(rec.local, version) THEN Return(rec, <<"is not installed", version>>)
      ELSE IF kase = "main" THEN Return(rec, <<"unable to remove (main)", version>>)
      ELSE [rec EXCEPT !.pc = "rm_bin"]

\* remove from the return of localVersions to its next call, commands.go:185-207
RemoveDispatch(rec0) ==
  LET version == IF rec0.arg = sMain THEN rec0.local.main ELSE rec0.arg
      rec == [rec0 EXCEPT !.version = version]
      kase == RemoveCase(version, rec.local)
  IN  IF ~versionRE(version) THEN Return(rec, <<"malformed version", version>>)
      ELSE IF ~contains(rec.local, version) THEN Return(rec, <<"is not installed", version>>)
      ELSE IF kase = "main" THEN Return(rec, <<"unable to remove (main)", version>>)
      ELSE IF kase = "current" THEN [rec EXCEPT !.pc = "rm_link"]
      ELSE [rec EXCEPT !.pc = "rm_bin"]

\* ListDispatch that asks go.dev in every mode
ListDispatch_AlwaysRemote(rec) == [rec EXCEPT !.pc = "http"]

\* list from the return of localVersions to its next call, commands.go:134-140
ListDispatch(rec) ==
  IF rec.printAll THEN [rec EXCEPT !.pc = "http"]
  ELSE [rec EXCEPT !.versions = rec.local.list, !.pc = "print"]

Dispatch(rec) ==
  IF rec.cmd = "use" THEN UseDispatch(rec)
  ELSE IF rec.cmd = "rm" THEN RemoveDispatch(rec)
  ELSE ListDispatch(rec)

\* main.go:438-444: a command is started with its argument
Start(p, c, a) ==
  /\ \A q \in Procs : inv[q].pc = "idle"
  /\ inv' = [inv EXCEPT ![p] = [Idle EXCEPT !.pc = "version", !.cmd = c, !.arg = a,
                                            !.pre = [gobin |-> gobin, sdk |-> sdk]]]
  /\ UNCHANGED <<gobin, sdk, ordVars>>

\* main.go:441-442, commands.go:115-128: ls is started with its flags parsed
StartList(p, all, only) ==
  /\ \A q \in Procs : inv[q].pc = "idle"
  /\ inv' = [inv EXCEPT ![p] = [Idle EXCEPT !.pc = "version", !.cmd = "ls",
                                            !.printAll = all, !.only = only,
                                            !.pre = [gobin |-> gobin, sdk |-> sdk]]]
  /\ UNCHANGED <<gobin, sdk, ordVars>>

\* the command lines on which run returns before the local state is
\* resolved (main.go:404-416, 445-446; commands.go:48-50, 126-128, 176-178)
EarlyLines == {"-v", "-h", "-x", "", "bogus", "use", "rm", "ls -x", "ls -h"}

sErrHelp == "flag: help requested"

EarlyError(line) ==
  CASE line = "-v" -> ErrNil
    [] line \in {"-h", "ls -h"} -> <<"usage", sErrHelp>>
    [] line \in {"-x", "ls -x"} -> <<"usage", "flag provided but not defined">>
    [] line = "" -> <<"usage", "no command has been specified">>
    [] line = "bogus" -> <<"usage", "unknown command">>
    [] line \in {"use", "rm"} -> <<"usage", "no version has been specified">>

StartEarly(p, line) ==
  /\ \A q \in Procs : inv[q].pc = "idle"
  /\ LET rec == [Idle EXCEPT !.cmd = line, !.pre = [gobin |-> gobin, sdk |-> sdk]]
     IN  inv' = [inv EXCEPT ![p] =
           Return(IF line = "-v" THEN Say(rec, <<"goversion", "dev", sPlatform>>) ELSE rec,
                  EarlyError(line))]
  /\ UNCHANGED <<gobin, sdk, ordVars>>

(***************************************************************************)
(* The context of the run, main.go:417-418 (signal.NotifyContext): an      *)
(* interrupt cancels it at any moment of the run.  The calls bound to the  *)
(* context are the subprocesses (exec.CommandContext, commands.go:27-39)   *)
(* and the request to go.dev (commands.go:316): under a cancelled context  *)
(* the subprocess is not started or is killed and the request is aborted,  *)
(* and the call returns an error.  The calls on the directories are not    *)
(* bound to it.                                                            *)
(***************************************************************************)
\* exec.ExitError.ExitCode of a subprocess that a signal has killed
Killed == -1

\* a context that is never seen cancelled
Interrupted_Never(rec) == FALSE

Interrupted(rec) == rec.ctx = "cancelled"

\* the errors a subprocess call may return
ExecErrors(rec) ==
  IF Interrupted(rec) THEN {<<"exit", Killed>>, <<"context canceled">>}
  ELSE {<<"exit", code>> : code \in ExitCodes}

\* the interrupt arrives while the command is at the call of its position
Cancel(p) ==
  /\ inv[p].pc \notin {"idle", "done", "exited"}
  /\ inv[p].ctx = "live"
  /\ inv' = [inv EXCEPT ![p] = [@ EXCEPT !.ctx = "cancelled", !.cancelledAt = inv[p].pc]]
  /\ UNCHANGED <<gobin, sdk, ordVars>>

\* a format check that accepts every output
expectedFormat_Any(parts) == TRUE

\* the check of the output of `go version`, commands.go:266-267
expectedFormat(parts) == Len(parts) = 4

\* localVersions, commands.go:250-269: PATH without $GOBIN, then `go version`
GoVersion(p) ==
  /\ inv[p].pc = "version"
  /\ \E outcome \in {"ok", "fail", "devel"} : \E e \in ExecErrors(inv[p]) :
       /\ Interrupted(inv[p]) => outcome = "fail"
       /\ LET currPath == inv[p].PATH
              tempPath == cutFromPath(currPath, GOBIN)
              rec == Log([inv[p] EXCEPT !.currPath = currPath, !.PATH = tempPath],
                         <<"exec", "go version">>)
              output == IF outcome = "devel" THEN develOutput
                        ELSE goVersionOutput(tempPath, gobin, sdk)
              parts == Split(output, sSpace)
          IN  inv' = [inv EXCEPT ![p] =
                IF outcome = "fail" THEN RestorePath(Return(Faulty(rec), e))
                ELSE IF ~expectedFormat(parts)
                     THEN RestorePath(Return([rec EXCEPT !.output = output],
                                             <<"unexpected format">>))
                ELSE [rec EXCEPT !.pc = "readlink", !.output = output,
                                 !.local.main = TrimPrefix(parts[3], sGo)]]
  /\ UNCHANGED <<gobin, sdk, ordVars>>

\* localVersions, commands.go:271-279: the active symlink is read
ReadlinkGo(p) ==
  /\ inv[p].pc = "readlink"
  /\ \E fail \in BOOLEAN :
       LET rec == Log(inv[p], <<"bin.Readlink", sGo>>)
           rl == Readlink(gobin, sGo)
       IN  inv' = [inv EXCEPT ![p] =
             IF fail THEN RestorePath(Return(Faulty(rec), <<"io">>))
             ELSE IF rl.err \notin {"nil", "ErrNotExist"}
                  THEN RestorePath(Return(rec, <<rl.err>>))
             ELSE [rec EXCEPT !.pc = "readdir",
                              !.local.current = currentOf(rec.local.main, rl)]]
  /\ UNCHANGED <<gobin, sdk, ordVars>>

\* localVersions, commands.go:281-306: $GOBIN is listed; then the command
\* runs up to its first call
ReadDir(p) ==
  /\ inv[p].pc = "readdir"
  /\ \E fail \in BOOLEAN :
       LET rec == Log(inv[p], <<"bin.ReadDir", sDot>>)
       IN  inv' = [inv EXCEPT ![p] =
             IF fail THEN RestorePath(Return(Faulty(rec), <<"io">>))
             ELSE Dispatch(RestorePath(
                    [rec EXCEPT !.local.list = localList(rec.local.main, gobin)]))]
  /\ UNCHANGED <<gobin, sdk, ordVars>>

\* use, commands.go:70-77: switching to main removes the symlink
UseMain(p) ==
  /\ inv[p].pc = "use_main"
  /\ \E fail \in BOOLEAN :
       LET rec == Log(inv[p], <<"bin.Remove", sGo>>)
           rm == Remove(gobin, sGo)
       IN  IF fail THEN /\ inv' = [inv EXCEPT ![p] = Return(Faulty(rec), <<"io">>)]
                        /\ UNCHANGED gobin
           ELSE /\ gobin' = rm.fs
                /\ inv' = [inv EXCEPT ![p] =
                     IF rm.err # "nil" THEN Return(rec, <<rm.err>>)
                     ELSE Return(Say(rec, <<"Switched to (main)", rec.version>>), ErrNil)]
  /\ UNCHANGED <<sdk, ordVars>>

\* use, commands.go:83-86: `go install golang.org/dl/go<version>@latest`
\* puts the binary go<version> into $GOBIN or fails
Install(p) ==
  /\ inv[p].pc = "install"
  /\ \E fail \in BOOLEAN : \E e \in ExecErrors(inv[p]) :
       /\ Interrupted(inv[p]) => fail
       /\ LET rec == Log(inv[p], <<"exec", "go install", inv[p].version>>)
          IN  IF fail THEN /\ inv' = [inv EXCEPT ![p] = Return(Faulty(rec), e)]
                           /\ UNCHANGED gobin
              ELSE /\ gobin' = ((sGo \o rec.version) :> FileEntry) @@ gobin
                   /\ inv' = [inv EXCEPT ![p] = [rec EXCEPT !.pc = "stat"]]
  /\ UNCHANGED <<sdk, ordVars>>

\* use, commands.go:91-95: the SDK marker is looked up; downloaded reports
\* any error of the lookup as "not downloaded"
StatSdk(p) ==
  /\ inv[p].pc = "stat"
  /\ \E fail \in BOOLEAN :
       LET version == inv[p].version
           rec0 == Log(inv[p], <<"sdk.Stat", version>>)
           rec == IF fail THEN Faulty(rec0) ELSE rec0
       IN  inv' = [inv EXCEPT ![p] =
             IF ~fail /\ downloaded(sdk, version) THEN [rec EXCEPT !.pc = "remove"]
             ELSE IF ~rec.initial
                  THEN [Say(rec, <<"SDK is missing. Starting download", version>>)
                          EXCEPT !.pc = "download"]
             ELSE [rec EXCEPT !.pc = "download"]]
  /\ UNCHANGED <<gobin, sdk, ordVars>>

\* use, commands.go:96-98: `go<version> download` unpacks the SDK and then
\* writes the marker; when it fails or is interrupted the directory may
\* exist without the marker; without the binary go<version> nothing runs
Download(p) ==
  /\ inv[p].pc = "download"
  /\ \E fail \in BOOLEAN : \E e \in ExecErrors(inv[p]) :
       /\ Interrupted(inv[p]) => fail
       /\ LET version == inv[p].version
              dir == sGo \o version
              rec == Log(inv[p], <<"exec", "download", version>>)
          IN  IF dir \notin DOMAIN gobin
              THEN /\ inv' = [inv EXCEPT ![p] = Return(rec, <<"exec: not found">>)]
                   /\ UNCHANGED sdk
              ELSE IF fail
              THEN /\ inv' = [inv EXCEPT ![p] = Return(Faulty(rec), e)]
                   /\ \/ UNCHANGED sdk
                      \/ sdk' = (dir :> {}) @@ sdk
              ELSE /\ sdk' = (dir :> SdkPayload(version)) @@ sdk
                   /\ inv' = [inv EXCEPT ![p] = [rec EXCEPT !.pc = "remove"]]
  /\ UNCHANGED <<gobin, ordVars>>

\* RemoveTolerated without the exemption of a missing symlink
RemoveTolerated_Strict(err) == err = "nil"

\* the error check of the symlink removal in use, commands.go:102
RemoveTolerated(err) == err = "nil" \/ err = "ErrNotExist"

\* use, commands.go:101-104: the old symlink is removed
RemoveGo(p) ==
  /\ inv[p].pc = "remove"
  /\ \E fail \in BOOLEAN :
       LET rec == Log(inv[p], <<"bin.Remove", sGo>>)
           rm == Remove(gobin, sGo)
       IN  IF fail THEN /\ inv' = [inv EXCEPT ![p] = Return(Faulty(rec), <<"io">>)]
                        /\ UNCHANGED gobin
           ELSE /\ gobin' = rm.fs
                /\ inv' = [inv EXCEPT ![p] =
                     IF ~RemoveTolerated(rm.err) THEN Return(rec, <<rm.err>>)
                     ELSE [rec EXCEPT !.pc = "symlink"]]
  /\ UNCHANGED <<sdk, ordVars>>

\* the other processes that have issued their symlink call (history: the
\* order of the symlink calls of concurrent invocations)
SymlinkCallers(p) ==
  {q \in Procs \ {p} : \E i \in 1..Len(inv[q].calls) : inv[q].calls[i][1] = "bin.Symlink"}

\* use, commands.go:105-110: the new symlink go -> go<version> is created
SymlinkGo(p) ==
  /\ inv[p].pc = "symlink"
  /\ \E fail \in BOOLEAN :
       LET version == inv[p].version
           rec == Log([inv[p] EXCEPT !.symlinkAfter = SymlinkCallers(p)],
                      <<"bin.Symlink", sGo \o version, sGo>>)
           sl == Symlink(sGobinDir, gobin, sGo \o version, sGo)
       IN  IF fail THEN /\ inv' = [inv EXCEPT ![p] = Return(Faulty(rec), <<"io">>)]
                        /\ UNCHANGED gobin
           ELSE /\ gobin' = sl.fs
                /\ inv' = [inv EXCEPT ![p] =
                     IF sl.err # "nil" THEN Return(rec, <<sl.err>>)
                     ELSE Return(Say(rec, <<"Switched to", version>>), ErrNil)]
  /\ UNCHANGED <<sdk, ordVars>>

\* remove, commands.go:201-206: the current version is switched to main first
RmLink(p) ==
  /\ inv[p].pc = "rm_link"
  /\ \E fail \in BOOLEAN :
       LET rec == Log(inv[p], <<"bin.Remove", sGo>>)
           rm == Remove(gobin, sGo)
       IN  IF fail THEN /\ inv' = [inv EXCEPT ![p] = Return(Faulty(rec), <<"io">>)]
                        /\ UNCHANGED gobin
           ELSE /\ gobin' = rm.fs
                /\ inv' = [inv EXCEPT ![p] =
                     IF rm.err # "nil" THEN Return(rec, <<rm.err>>)
                     ELSE [Say(rec, <<"Switched to (main)", rec.local.main>>)
                             EXCEPT !.pc = "rm_bin"]]
  /\ UNCHANGED <<sdk, ordVars>>

\* remove, commands.go:209-211: the versioned binary is removed
RmBin(p) ==
  /\ inv[p].pc = "rm_bin"
  /\ \E fail \in BOOLEAN :
       LET rec == Log(inv[p], <<"bin.Remove", sGo \o inv[p].version>>)
           rm == Remove(gobin, sGo \o inv[p].version)
       IN  IF fail THEN /\ inv' = [inv EXCEPT ![p] = Return(Faulty(rec), <<"io">>)]
                        /\ UNCHANGED gobin
           ELSE /\ gobin' = rm.fs
                /\ inv' = [inv EXCEPT ![p] =
                     IF rm.err # "nil" THEN Return(rec, <<rm.err>>)
                     ELSE [rec EXCEPT !.pc = "rm_sdk"]]
  /\ UNCHANGED <<sdk, ordVars>>

\* remove, commands.go:212-217: the SDK subtree is removed; a failing
\* os.RemoveAll may already have removed files of the subtree
RmSdk(p) ==
  /\ inv[p].pc = "rm_sdk"
  /\ \E fail \in BOOLEAN :
       LET dir == sGo \o inv[p].version
           rec == Log(inv[p], <<"sdk.RemoveAll", dir>>)
           rm == RemoveAll(sdk, dir)
       IN  IF fail
           THEN /\ inv' = [inv EXCEPT ![p] = Return(Faulty(rec), <<"io">>)]
                /\ \/ UNCHANGED sdk
                   \/ /\ dir \in DOMAIN sdk
                      /\ sdk' = [sdk EXCEPT ![dir] = {}]
           ELSE /\ sdk' = rm.fs
                /\ inv' = [inv EXCEPT ![p] = Return(Say(rec, <<"Removed", rec.version>>), ErrNil)]
  /\ UNCHANGED <<gobin, ordVars>>

\* remoteVersions, commands.go:313-343: one GET of the catalog; "tip" is put
\* in front of the versions of the answer, each without its "go" prefix
sUrl == "https://go.dev/dl/?mode=json&include=all"

\* remoteVersions that leaves out the entries that are not stable
remoteList_StableOnly(resp) ==
  <<sTip>> \o [i \in 1..Len(SelectSeq(resp, LAMBDA e : e.Stable)) |->
                TrimPrefix(SelectSeq(resp, LAMBDA e : e.Stable)[i].Version, sGo)]

remoteList(resp) == <<sTip>> \o [i \in 1..Len(resp) |-> TrimPrefix(resp[i].Version, sGo)]

Http(p) ==
  /\ inv[p].pc = "http"
  /\ \E outcome \in {"ok", "net", "decode"} : \E resp \in Catalogs :
       /\ Interrupted(inv[p]) => outcome = "net"
       /\ LET rec == Log(inv[p], <<"http", "GET", sUrl>>)
          IN  inv' = [inv EXCEPT ![p] =
                IF outcome # "ok" THEN Return(Faulty(rec), <<outcome>>)
                ELSE [rec EXCEPT !.catalog = resp, !.versions = remoteList(resp),
                                 !.pc = "print"]]
  /\ UNCHANGED <<gobin, sdk, ordVars>>

\* the switch of list, commands.go:153-160; its third case calls downloaded
ListCase_NoMain(version, l) ==
  IF ~contains(l, version) THEN "not installed" ELSE "stat"

ListCase(version, l) ==
  IF version = l.main THEN "main"
  ELSE IF ~contains(l, version) THEN "not installed"
  ELSE "stat"

\* the "*" of the current version, commands.go:162-165
ListPrefix(version, l) == IF version = l.current THEN "*" ELSE " "

\* HasPrefix that accepts every version
ListSkips_Never(version, only) == FALSE

\* the filter of the loop, commands.go:148-150
ListSkips(version, only) == ~HasPrefix(version, only)

\* the loop of list, commands.go:147-168, from entry i on; the Stat of a
\* version in `failing` returns an error; a line is the arguments of
\* Fprintf("%s %-10s%s\n", prefix, version, extra)
RECURSIVE PrintFrom(_, _, _, _, _)
PrintFrom(rec, versions, i, only, failing) ==
  IF i > Len(versions) THEN rec
  ELSE LET version == versions[i]
           kase == ListCase(version, rec.local)
           failed == kase = "stat" /\ version \in failing
           rec1 == IF kase = "stat" THEN Log(rec, <<"sdk.Stat", version>>) ELSE rec
           rec2 == IF failed THEN Faulty(rec1) ELSE rec1
           extra == IF kase = "main" THEN " (main)"
                    ELSE IF kase = "not installed" THEN " (not installed)"
                    ELSE IF failed \/ ~downloaded(sdk, version) THEN " (missing SDK)"
                    ELSE ""
           prefix == ListPrefix(version, rec.local)
       IN  IF ListSkips(version, only) THEN PrintFrom(rec, versions, i + 1, only, failing)
           ELSE PrintFrom(Say(rec2, <<prefix, version, extra>>), versions, i + 1, only, failing)

\* list, commands.go:142-170: the filter "latest" and the loop; a panic of
\* latestPatches ends the process with the status 2 of the Go runtime
PrintList(p) ==
  /\ inv[p].pc = "print"
  /\ \E failing \in SUBSET AddOns :
       LET rec == inv[p]
           isLatest == rec.only = sLatest
           sel == IF isLatest THEN latestPatches(rec.versions) ELSE <<"ok", rec.versions>>
           only == IF isLatest THEN <<>> ELSE rec.only
       IN  inv' = [inv EXCEPT ![p] =
             IF sel[1] = "panic"
             THEN [rec EXCEPT !.pc = "exited", !.err = <<"panic", "version list is not sorted">>,
                              !.code = 2]
             ELSE Return(PrintFrom([rec EXCEPT !.versions = sel[2]], sel[2], 1, only, failing),
                         ErrNil)]
  /\ UNCHANGED <<gobin, sdk, ordVars>>

\* the switch of main, main.go:374-393
ExitCode(err) ==
  IF err = ErrNil THEN 0
  ELSE IF err = <<"usage", sErrHelp>> THEN 0
  ELSE IF err[1] = "usage" THEN 2
  ELSE IF err[1] = "exit" THEN err[2]
  ELSE 1

MainPrints(err) ==
  IF err = ErrNil THEN <<>>
  ELSE IF err = <<"usage", sErrHelp>> THEN <<<<"usage text">>>>
  ELSE IF err[1] = "usage" THEN <<<<"Error", err>>, <<"usage text">>>>
  ELSE IF err[1] = "exit" THEN <<>>
  ELSE <<<<"Error", err>>>>

\* main.go:374-393: run has returned; the process exits
Exit(p) ==
  /\ inv[p].pc = "done"
  /\ inv' = [inv EXCEPT ![p] = [inv[p] EXCEPT !.pc = "exited",
                                              !.code = ExitCode(inv[p].err),
                                              !.out = @ \o MainPrints(inv[p].err)]]
  /\ UNCHANGED <<gobin, sdk, ordVars>>

\* the exit status has been collected; the process is gone
Reap(p) ==
  /\ inv[p].pc = "exited"
  /\ inv' = [inv EXCEPT ![p] = Idle]
  /\ UNCHANGED <<gobin, sdk, ordVars>>

(***************************************************************************)
(* The initial states: no active symlink; goversion itself lies in $GOBIN; *)
(* any of the versioned binaries may have been installed and any of the    *)
(* SDKs may be absent, unpacked without marker, or complete (the states    *)
(* golang.org/dl leaves behind).                                           *)
(***************************************************************************)
BinVersions == AddOns \cup {Main}

InitGobin(S) == [n \in {sGoversion} \cup {sGo \o v : v \in S} |-> FileEntry]

InitSdk(part, full) ==
  [d \in {sGo \o v : v \in part \cup full} |->
     LET v == TrimPrefix(d, sGo) IN IF v \in full THEN SdkPayload(v) ELSE {}]

Init ==
  /\ \E S \in SUBSET BinVersions : gobin = InitGobin(S)
  /\ \E part \in SUBSET BinVersions : \E full \in SUBSET (BinVersions \ part) :
       sdk = InitSdk(part, full)
  /\ inv = [p \in Procs |-> Idle]
  /\ va = <<>> /\ vb = <<>> /\ less = <<>>
  /\ vlist = <<>> /\ latest = <<>>
  /\ cpath = <<>> /\ cvalue = <<>> /\ cut = <<>>

Step(p) ==
  \/ GoVersion(p) \/ ReadlinkGo(p) \/ ReadDir(p)
  \/ UseMain(p) \/ Install(p) \/ StatSdk(p) \/ Download(p) \/ RemoveGo(p) \/ SymlinkGo(p)
  \/ RmLink(p) \/ RmBin(p) \/ RmSdk(p)
  \/ Http(p) \/ PrintList(p)
  \/ Exit(p) \/ Reap(p)

Next ==
  \E p \in Procs :
    \/ \E c \in {"use", "rm"} : \E a \in Args : Start(p, c, a)
    \/ \E all \in BOOLEAN : \E only \in Onlys : StartList(p, all, only)
    \/ \E line \in EarlyLines : StartEarly(p, line)
    \/ Step(p)

Spec == Init /\ [][Next]_vars

(***************************************************************************)
(* The concurrent specification: the tool takes no lock, so two processes  *)
(* may each run one use or rm against the same $GOBIN and $HOME/sdk, their *)
(* calls interleaved in any order.  It starts in the states successful     *)
(* uses leave behind: some add-on versions installed with their SDKs, and  *)
(* main or one of them current.                                            *)
(***************************************************************************)
ConcArgs == {sMain} \cup AddOns

ConcInit ==
  /\ \E S \in SUBSET AddOns : \E cur \in S \cup {Main} :
       /\ gobin = IF cur = Main THEN InitGobin(S)
                  ELSE (sGo :> LinkEntry(join(sGobinDir, sGo \o cur))) @@ InitGobin(S)
       /\ sdk = InitSdk({}, S)
  /\ inv = [p \in Procs |-> Idle]
  /\ va = <<>> /\ vb = <<>> /\ less = <<>>
  /\ vlist = <<>> /\ latest = <<>>
  /\ cpath = <<>> /\ cvalue = <<>> /\ cut = <<>>

\* main.go:438-444: process p starts its command, whatever the other does
ConcStart(p, c, a) ==
  /\ inv[p].pc = "idle"
  /\ inv' = [inv EXCEPT ![p] = [Idle EXCEPT !.pc = "version", !.cmd = c, !.arg = a,
                                            !.pre = [gobin |-> gobin, sdk |-> sdk]]]
  /\ UNCHANGED <<gobin, sdk, ordVars>>

ConcStep(p) ==
  \/ GoVersion(p) \/ ReadlinkGo(p) \/ ReadDir(p)
  \/ UseMain(p) \/ Install(p) \/ StatSdk(p) \/ Download(p) \/ RemoveGo(p) \/ SymlinkGo(p)
  \/ RmLink(p) \/ RmBin(p) \/ RmSdk(p)

ConcNext ==
  \E p \in Procs :
    \/ \E c \in {"use", "rm"} : \E a \in ConcArgs : ConcStart(p, c, a)
    \/ ConcStep(p)

ConcSpec == ConcInit /\ [][ConcNext]_vars

(***************************************************************************)
(* The specification of the retry: on a consistent installation process 1  *)
(* runs rm, where any call may fail; once it has returned, process 2 runs  *)
(* rm with the same argument.                                              *)
(***************************************************************************)
RemoveFirst(a) ==
  /\ \A q \in Procs : inv[q].pc = "idle"
  /\ inv' = [inv EXCEPT ![1] = [Idle EXCEPT !.pc = "version", !.cmd = "rm", !.arg = a,
                                            !.pre = [gobin |-> gobin, sdk |-> sdk]]]
  /\ UNCHANGED <<gobin, sdk, ordVars>>

RemoveAgain ==
  /\ inv[1].pc = "done" /\ inv[2].pc = "idle"
  /\ inv' = [inv EXCEPT ![2] = [Idle EXCEPT !.pc = "version", !.cmd = "rm", !.arg = inv[1].arg,
                                            !.pre = [gobin |-> gobin, sdk |-> sdk]]]
  /\ UNCHANGED <<gobin, sdk, ordVars>>

RetryStep(p) ==
  \/ GoVersion(p) \/ ReadlinkGo(p) \/ ReadDir(p)
  \/ RmLink(p) \/ RmBin(p) \/ RmSdk(p)

RetryNext ==
  \/ \E a \in ConcArgs : RemoveFirst(a)
  \/ RemoveAgain
  \/ \E p \in Procs : RetryStep(p)

RetrySpec == ConcInit /\ [][RetryNext]_vars

(***************************************************************************)
(* The specification of the environments: on a consistent installation ls  *)
(* is started with the PATH of a shell, or with the PATH of a command that *)
(* the go1.19 binary runs, which has $GOROOT/bin in front (`go run`,        *)
(* `go generate` with 1.19 switched to).                                   *)
(***************************************************************************)
EnvPaths == {InitPath, sGorootBin \o sPathListSeparator \o InitPath}

EnvStart(p, path) ==
  /\ \A q \in Procs : inv[q].pc = "idle"
  /\ inv' = [inv EXCEPT ![p] = [Idle EXCEPT !.pc = "version", !.cmd = "ls",
                                            !.PATH = path, !.envPath = path,
                                            !.pre = [gobin |-> gobin, sdk |-> sdk]]]
  /\ UNCHANGED <<gobin, sdk, ordVars>>

EnvStep(p) == GoVersion(p) \/ ReadlinkGo(p) \/ ReadDir(p) \/ PrintList(p)

EnvNext ==
  \E p \in Procs :
    \/ \E path \in EnvPaths : EnvStart(p, path)
    \/ EnvStep(p)

EnvSpec == ConcInit /\ [][EnvNext]_vars

(***************************************************************************)
(* The specification with interrupts: one invocation of use, rm or ls on   *)
(* a consistent installation, whose context an interrupt may cancel at any *)
(* call.  The calls bound to the context return: a subprocess ends or is   *)
(* killed and the request to go.dev answers or is aborted; hence the weak  *)
(* fairness of these calls.                                                *)
(***************************************************************************)
ContextCall(p) == GoVersion(p) \/ Install(p) \/ Download(p) \/ Http(p)

CancelStep(p) ==
  \/ GoVersion(p) \/ ReadlinkGo(p) \/ ReadDir(p)
  \/ UseMain(p) \/ Install(p) \/ StatSdk(p) \/ Download(p) \/ RemoveGo(p) \/ SymlinkGo(p)
  \/ RmLink(p) \/ RmBin(p) \/ RmSdk(p)
  \/ Http(p) \/ PrintList(p)
  \/ Exit(p)

CancelNext ==
  \E p \in Procs :
    \/ \E c \in {"use", "rm"} : \E a \in Args : Start(p, c, a)
    \/ \E all \in BOOLEAN : \E only \in Onlys : StartList(p, all, only)
    \/ Cancel(p)
    \/ CancelStep(p)

CancelSpec == ConcInit /\ [][CancelNext]_vars /\ \A p \in Procs : WF_vars(ContextCall(p))

(***************************************************************************)
(* The ordering specification: versionLess applied to two version strings  *)
(* of the pool.                                                            *)
(***************************************************************************)
NoRun ==
  /\ gobin = InitGobin({}) /\ sdk = InitSdk({}, {})
  /\ inv = [p \in Procs |-> Idle]

OrdInit ==
  /\ va \in VersionPool /\ vb \in VersionPool
  /\ less = <<>>
  /\ vlist = <<>> /\ latest = <<>>
  /\ cpath = <<>> /\ cvalue = <<>> /\ cut = <<>>
  /\ NoRun

Compare ==
  /\ less = <<>>
  /\ less' = <<versionLess(va, vb), versionLess(vb, va)>>
  /\ UNCHANGED <<gobin, sdk, inv, va, vb, vlist, latest, cpath, cvalue, cut>>

OrdNext == Compare

OrdSpec == OrdInit /\ [][OrdNext]_vars

(***************************************************************************)
(* The patch specification: latestPatches applied to a list of at most     *)
(* MaxLen version strings, sorted or not.                                  *)
(***************************************************************************)
BoundedSeqs(S, n) == UNION {[1..k -> S] : k \in 0..n}

PatchCores ==
  {<<"1">> \o d1 \o d2 : d1 \in {<<>>, <<".", "1">>, <<".", "2">>},
                          d2 \in {<<>>, <<".", "1">>, <<".", "2">>}}

PatchPool ==
  {sTip} \cup {c \o t : c \in PatchCores, t \in {<<>>, sRc \o <<"1">>, sRc \o <<"2">>}}

PatchInit ==
  /\ vlist \in BoundedSeqs(PatchPool, MaxLen)
  /\ latest = <<>>
  /\ va = <<>> /\ vb = <<>> /\ less = <<>>
  /\ cpath = <<>> /\ cvalue = <<>> /\ cut = <<>>
  /\ NoRun

Collapse ==
  /\ latest = <<>>
  /\ latest' = latestPatches(vlist)
  /\ UNCHANGED <<gobin, sdk, inv, va, vb, less, vlist, cpath, cvalue, cut>>

PatchNext == Collapse

PatchSpec == PatchInit /\ [][PatchNext]_vars

(***************************************************************************)
(* The path specification: cutFromPath applied to a $PATH-like string of   *)
(* at most MaxEntries entries and to a directory.                          *)
(***************************************************************************)
PathEntries == {<<>>, sGobinDir, sRootDir, sGobinDir \o <<"b">>}

PathInit ==
  /\ \E es \in BoundedSeqs(PathEntries, MaxEntries) : cpath = Join(es, sPathListSeparator)
  /\ cvalue \in PathEntries
  /\ cut = <<>>
  /\ va = <<>> /\ vb = <<>> /\ less = <<>>
  /\ vlist = <<>> /\ latest = <<>>
  /\ NoRun

Cut ==
  /\ cut = <<>>
  /\ cut' = <<cutFromPath(cpath, cvalue)>>
  /\ UNCHANGED <<gobin, sdk, inv, va, vb, less, vlist, latest, cpath, cvalue>>

PathNext == Cut

PathSpec == PathInit /\ [][PathNext]_vars

(***************************************************************************)
(* Vocabulary of the properties.                                           *)
(***************************************************************************)
\* the three calls of localVersions
ReadCalls == <<<<"exec", "go version">>, <<"bin.Readlink", sGo>>, <<"bin.ReadDir", sDot>>>>

IsPrefixOf(s, t) == Len(s) <= Len(t) /\ SubSeq(t, 1, Len(s)) = s

\* the invocation has returned from localVersions without an error
ResolvedOk(rec) == rec.local.list # <<>>

\* process p has finished command c, past a successful local-state resolution
Finished(p, c) == inv[p].pc = "done" /\ inv[p].cmd = c /\ ResolvedOk(inv[p])

\* the file system is as it was when the invocation of p started
Untouched(p) == gobin = inv[p].pre.gobin /\ sdk = inv[p].pre.sdk

\* the active symlink points to the versioned binary of version
LinkedTo(bin, version) ==
  Readlink(bin, sGo) = [err |-> "nil", target |-> join(sGobinDir, sGo \o version)]

HasMarker(tree, version) ==
  (sGo \o version) \in DOMAIN tree /\ SdkPayload(version) \subseteq tree[sGo \o version]

\* the installed set of a binary directory: main and the version of every
\* entry that is not a directory and is named after a valid version
InstalledSet(bin) ==
  {Main} \cup {TrimPrefix(n, sGo) : n \in {m \in DOMAIN bin :
                   bin[m].kind # "dir" /\ versionRE(TrimPrefix(m, sGo))}}

Issued(rec, call) == SeqContains(rec.calls, call)

CallInstall(version) == <<"exec", "go install", version>>
CallStat(version) == <<"sdk.Stat", version>>
CallDownload(version) == <<"exec", "download", version>>
CallRemoveGo == <<"bin.Remove", sGo>>
CallSymlink(version) == <<"bin.Symlink", sGo \o version, sGo>>
CallRemoveBin(version) == <<"bin.Remove", sGo \o version>>
CallRemoveAll(version) == <<"sdk.RemoveAll", sGo \o version>>

\* the invocation of p asks for an add-on version that is not the current one
UsesAddOn(p) ==
  /\ inv[p].cmd = "use" /\ ResolvedOk(inv[p])
  /\ versionRE(inv[p].version)
  /\ inv[p].version # inv[p].local.current
  /\ inv[p].version # inv[p].local.main

(***************************************************************************)
(* C1: use(X) with X the resolved current version (literally or through    *)
(* the alias "main") prints "<X> is already in use", returns success and   *)
(* issues no call besides the three reads of the resolution: no Remove,    *)
(* RemoveAll, Symlink, install or download, and the directories are left   *)
(* as they were, whether or not the SDK marker of X is present.            *)
(***************************************************************************)
C1_UseCurrentIsNoop ==
  \A p \in Procs :
    (Finished(p, "use") /\ inv[p].version = inv[p].local.current) =>
      /\ inv[p].err = ErrNil
      /\ inv[p].out = <<<<"is already in use", inv[p].version>>>>
      /\ inv[p].calls = ReadCalls
      /\ Untouched(p)

\* use of the current add-on version has finished; and use main has
\* finished while main, which has no SDK marker, is current
C1_Witness ==
  /\ \E p \in Procs :
       /\ Finished(p, "use") /\ inv[p].version = inv[p].local.current
       /\ inv[p].arg = sMain
       /\ ~HasMarker(sdk, inv[p].version)
       /\ \E v \in AddOns : (sGo \o v) \in DOMAIN gobin

C1_WitnessAddOn ==
  \E p \in Procs :
    /\ Finished(p, "use") /\ inv[p].version = inv[p].local.current
    /\ inv[p].version \in AddOns
    /\ HasMarker(sdk, inv[p].version)

(***************************************************************************)
(* C2: use(main) while another version is current issues, after the reads  *)
(* of the resolution, the removal of the symlink "go" and nothing else; on *)
(* success exactly the symlink is gone from $GOBIN, and no binary and no   *)
(* SDK subtree is touched.                                                 *)
(***************************************************************************)
C2_UseMainRemovesOnlyLink ==
  \A p \in Procs :
    (/\ Finished(p, "use")
     /\ inv[p].version = inv[p].local.main
     /\ inv[p].local.current # inv[p].local.main) =>
      /\ inv[p].calls = Append(ReadCalls, CallRemoveGo)
      /\ sdk = inv[p].pre.sdk
      /\ inv[p].err = ErrNil =>
           /\ sGo \in DOMAIN inv[p].pre.gobin
           /\ gobin = Without(inv[p].pre.gobin, sGo)
      /\ inv[p].err # ErrNil => gobin = inv[p].pre.gobin

C2_Witness ==
  \E p \in Procs :
    /\ Finished(p, "use")
    /\ inv[p].version = inv[p].local.main
    /\ inv[p].local.current \in AddOns
    /\ inv[p].err = ErrNil
    /\ sGo \notin DOMAIN gobin

(***************************************************************************)
(* C3: use(X) for an add-on version X with neither binary nor SDK marker   *)
(* issues, after the resolution, install, SDK stat, download, removal of   *)
(* "go" and creation of the symlink go<X> -> go, in this order; when no    *)
(* call fails it issues all of them and succeeds, also when main was       *)
(* current and the removal found no symlink.                               *)
(***************************************************************************)
NewVersionCalls(version) ==
  ReadCalls \o <<CallInstall(version), CallStat(version), CallDownload(version),
                 CallRemoveGo, CallSymlink(version)>>

C3_NewVersionStepOrder ==
  \A p \in Procs :
    (/\ UsesAddOn(p)
     /\ (sGo \o inv[p].version) \notin DOMAIN inv[p].pre.gobin
     /\ ~HasMarker(inv[p].pre.sdk, inv[p].version)) =>
      /\ IsPrefixOf(inv[p].calls, NewVersionCalls(inv[p].version))
      /\ (inv[p].pc = "done" /\ ~inv[p].faulty) =>
           /\ inv[p].calls = NewVersionCalls(inv[p].version)
           /\ inv[p].err = ErrNil
           /\ LinkedTo(gobin, inv[p].version)

\* a new version was installed while main was current (no symlink to remove)
C3_Witness ==
  \E p \in Procs :
    /\ UsesAddOn(p) /\ inv[p].pc = "done" /\ ~inv[p].faulty
    /\ (sGo \o inv[p].version) \notin DOMAIN inv[p].pre.gobin
    /\ ~HasMarker(inv[p].pre.sdk, inv[p].version)
    /\ inv[p].local.current = inv[p].local.main
    /\ sGo \notin DOMAIN inv[p].pre.gobin
    /\ LinkedTo(gobin, inv[p].version)

(***************************************************************************)
(* C4: use(X) for an add-on version X whose binary is in $GOBIN and whose  *)
(* SDK marker is absent issues no install, and issues the download right   *)
(* after the SDK stat, before any call on the active symlink.              *)
(***************************************************************************)
C4_MissingSdkIsDownloaded ==
  \A p \in Procs :
    (/\ UsesAddOn(p) /\ inv[p].pc = "done"
     /\ (sGo \o inv[p].version) \in DOMAIN inv[p].pre.gobin
     /\ ~HasMarker(inv[p].pre.sdk, inv[p].version)) =>
      /\ ~Issued(inv[p], CallInstall(inv[p].version))
      /\ Len(inv[p].calls) >= 5
      /\ SubSeq(inv[p].calls, 1, 5) =
           ReadCalls \o <<CallStat(inv[p].version), CallDownload(inv[p].version)>>

C4_Witness ==
  \E p \in Procs :
    /\ UsesAddOn(p) /\ inv[p].pc = "done" /\ inv[p].err = ErrNil
    /\ (sGo \o inv[p].version) \in DOMAIN inv[p].pre.gobin
    /\ ~HasMarker(inv[p].pre.sdk, inv[p].version)
    /\ HasMarker(sdk, inv[p].version)
    /\ LinkedTo(gobin, inv[p].version)

(***************************************************************************)
(* C5: convergence of use.  In every state that earlier invocations, also  *)
(* failed and interrupted ones, have left behind, a use(X) of an add-on    *)
(* version X in which no call fails ends in success with the binary of X   *)
(* present, the SDK marker of X present and the active symlink pointing to *)
(* go<X>; it runs the install exactly when the binary was missing and the  *)
(* download exactly when the marker was missing.                           *)
(***************************************************************************)
C5_UseConverges ==
  \A p \in Procs :
    (/\ Finished(p, "use") /\ ~inv[p].faulty
     /\ versionRE(inv[p].version)
     /\ inv[p].version # inv[p].local.main) =>
      LET X == inv[p].version
      IN  /\ inv[p].err = ErrNil
          /\ (sGo \o X) \in DOMAIN gobin
          /\ gobin[sGo \o X].kind = "file"
          /\ HasMarker(sdk, X)
          /\ LinkedTo(gobin, X)
          /\ Issued(inv[p], CallInstall(X)) <=> (sGo \o X) \notin DOMAIN inv[p].pre.gobin
          /\ Issued(inv[p], CallDownload(X)) <=> ~HasMarker(inv[p].pre.sdk, X)

\* a use that found the binary left by an earlier, failed attempt and the
\* SDK directory without its marker, and completed the download only
C5_Witness ==
  \E p \in Procs :
    LET X == inv[p].version
    IN  /\ Finished(p, "use") /\ ~inv[p].faulty /\ X \in AddOns
        /\ (sGo \o X) \in DOMAIN inv[p].pre.gobin
        /\ (sGo \o X) \in DOMAIN inv[p].pre.sdk
        /\ ~HasMarker(inv[p].pre.sdk, X)
        /\ ~Issued(inv[p], CallInstall(X))
        /\ Issued(inv[p], CallDownload(X))
        /\ HasMarker(sdk, X) /\ LinkedTo(gobin, X)

(***************************************************************************)
(* C6: remove(X) for a valid version X that is not installed fails with    *)
(* "<X> is not installed" and issues no call besides the three reads of    *)
(* the resolution; both directories are left as they were.                 *)
(***************************************************************************)
C6_RemoveNotInstalled ==
  \A p \in Procs :
    (/\ Finished(p, "rm")
     /\ versionRE(inv[p].version)
     /\ inv[p].version \notin InstalledSet(inv[p].pre.gobin)) =>
      /\ inv[p].err = <<"is not installed", inv[p].version>>
      /\ inv[p].calls = ReadCalls
      /\ Untouched(p)

C6_Witness ==
  \E p \in Procs :
    /\ Finished(p, "rm")
    /\ inv[p].version \in AddOns
    /\ (sGo \o inv[p].version) \notin DOMAIN inv[p].pre.gobin
    /\ inv[p].err = <<"is not installed", inv[p].version>>
    /\ sGo \in DOMAIN gobin

(***************************************************************************)
(* C7: remove(main) fails, given as the alias "main" or as the version     *)
(* string of main, whether or not main is current and whether or not a     *)
(* binary named after main exists; it issues no call besides the three     *)
(* reads of the resolution and leaves both directories as they were.       *)
(***************************************************************************)
C7_RemoveMainFails ==
  \A p \in Procs :
    (Finished(p, "rm") /\ inv[p].arg \in {sMain, Main}) =>
      /\ inv[p].err = <<"unable to remove (main)", Main>>
      /\ inv[p].calls = ReadCalls
      /\ Untouched(p)

\* rm of the literal main version, while another version is current and a
\* binary named after main lies in $GOBIN
C7_Witness ==
  \E p \in Procs :
    /\ Finished(p, "rm") /\ inv[p].arg = Main
    /\ inv[p].local.current \in AddOns
    /\ (sGo \o Main) \in DOMAIN gobin
    /\ inv[p].err # ErrNil

(***************************************************************************)
(* C8: remove(X) of the installed, current version X issues, after the     *)
(* resolution, the removal of the symlink "go", the removal of the binary  *)
(* go<X> and the recursive removal of the SDK subtree go<X>, in this       *)
(* order; when all succeed, a fresh resolution gives current = main and    *)
(* X is no longer installed.                                               *)
(***************************************************************************)
RemoveCurrentCalls(version) ==
  ReadCalls \o <<CallRemoveGo, CallRemoveBin(version), CallRemoveAll(version)>>

C8_RemoveCurrent ==
  \A p \in Procs :
    (/\ inv[p].cmd = "rm" /\ ResolvedOk(inv[p])
     /\ inv[p].version \in InstalledSet(inv[p].pre.gobin) \ {Main}
     /\ LinkedTo(inv[p].pre.gobin, inv[p].version)) =>
      /\ IsPrefixOf(inv[p].calls, RemoveCurrentCalls(inv[p].version))
      /\ (inv[p].pc = "done" /\ inv[p].err = ErrNil) =>
           /\ inv[p].calls = RemoveCurrentCalls(inv[p].version)
           /\ Resolved.current = Main
           /\ ~contains(Resolved, inv[p].version)
           /\ (sGo \o inv[p].version) \notin DOMAIN sdk
      /\ (inv[p].pc = "done" /\ ~inv[p].faulty) => inv[p].err = ErrNil

C8_Witness ==
  \E p \in Procs :
    /\ Finished(p, "rm") /\ inv[p].err = ErrNil
    /\ inv[p].version \in AddOns
    /\ LinkedTo(inv[p].pre.gobin, inv[p].version)
    /\ HasMarker(inv[p].pre.sdk, inv[p].version)
    /\ sGo \notin DOMAIN gobin

(***************************************************************************)
(* C9: whenever no invocation is under way, also after invocations that    *)
(* stopped with an error at any call, the resolved current version is main *)
(* or one of the resolved installed versions.                              *)
(***************************************************************************)
Quiescent == \A p \in Procs : inv[p].pc \in {"idle", "done", "exited"}

C9_CurrentIsInstalled ==
  Quiescent => Resolved.current \in InstalledSet(gobin)

\* an add-on version is current after an invocation that failed
C9_Witness ==
  /\ Quiescent
  /\ Resolved.current \in AddOns
  /\ \E p \in Procs : inv[p].pc = "done" /\ inv[p].faulty /\ inv[p].cmd = "rm"

(***************************************************************************)
(* C10: versionLess is a strict total order on the valid version strings:  *)
(* of two different valid version strings exactly one is less than the     *)
(* other.                                                                  *)
(***************************************************************************)
C10_StrictTotalOrder ==
  (less # <<>> /\ va # vb /\ versionRE(va) /\ versionRE(vb)) => (less[1] # less[2])

(***************************************************************************)
(* C11: "tip" sorts before every other valid version: for every valid      *)
(* version string v other than "tip", versionLess("tip", v) is true and    *)
(* versionLess(v, "tip") is false.                                         *)
(***************************************************************************)
C11_TipSortsFirst ==
  (less # <<>> /\ va = sTip /\ vb # sTip /\ versionRE(vb)) => less = <<TRUE, FALSE>>

\* tip was compared with a pre-release of a patch version
C11_Witness ==
  /\ less = <<TRUE, FALSE>> /\ va = sTip
  /\ versionRE(vb) /\ parseVersion(vb).tail # <<>> /\ parseVersion(vb).min > 0

(***************************************************************************)
(* C12: of two different release-shaped versions, with (major, minor,      *)
(* tail) the three values parseVersion extracts, the one with the higher   *)
(* major sorts first; with the majors tied the one with the higher minor   *)
(* sorts first; with both tied the one without a tail sorts before the one *)
(* with a tail, and of two with a tail the one with the lexicographically  *)
(* larger tail sorts first.  "x sorts first" is: versionLess(x, y) holds   *)
(* and versionLess(y, x) does not.                                         *)
(***************************************************************************)
LexGreater(a, b) ==
  \E k \in 1..Len(a) :
    /\ k - 1 <= Len(b)
    /\ SubSeq(a, 1, k - 1) = SubSeq(b, 1, k - 1)
    /\ (k > Len(b) \/ CharRank(a[k]) > CharRank(b[k]))

SortsFirst(pa, pb) ==
  \/ pa.maj > pb.maj
  \/ pa.maj = pb.maj /\ pa.min > pb.min
  \/ pa.maj = pb.maj /\ pa.min = pb.min /\ pa.tail = <<>> /\ pb.tail # <<>>
  \/ /\ pa.maj = pb.maj /\ pa.min = pb.min /\ pa.tail # <<>> /\ pb.tail # <<>>
     /\ LexGreater(pa.tail, pb.tail)

ReleaseCore(v) ==
  LET ib == Index(v, sBeta)
      ir == Index(v, sRc)
      cutAt == IF ib > 0 /\ (ir <= 0 \/ ib < ir) THEN ib ELSE ir
  IN  IF cutAt > 0 THEN SubSeq(v, 1, cutAt) ELSE v

ReleaseLine(v) ==
  IF v = sTip THEN <<sTip>>
  ELSE LET comps == Split(ReleaseCore(v), sDot)
       IN  <<comps[1], IF Len(comps) >= 2 THEN comps[2] ELSE <<"0">>>>

RECURSIVE RunHeads(_, _)
RunHeads(list, i) ==
  IF i > Len(list) THEN <<>>
  ELSE (IF i = 1 \/ ReleaseLine(list[i]) # ReleaseLine(list[i - 1])
        THEN <<list[i]>> ELSE <<>>) \o RunHeads(list, i + 1)

C13_LatestOfEachLine ==
  (latest # <<>> /\ SliceIsSorted(vlist)) => latest = <<"ok", RunHeads(vlist, 1)>>

(***************************************************************************)
(* C14: list only reads.  In every mode (local, all, prefix, latest) and   *)
(* every local state both directories stay as they were, every call is one *)
(* of the reads (go version, Readlink, ReadDir, Stat of an SDK marker, the *)
(* GET of the catalog), no GET is issued without the flag -all and never   *)
(* more than one, and a list with -all that returns success has issued     *)
(* exactly one.                                                            *)
(***************************************************************************)
CallGet == <<"http", "GET", sUrl>>

Gets(rec) == Cardinality({i \in 1..Len(rec.calls) : rec.calls[i] = CallGet})

IsReadCall(call) ==
  \/ call \in {ReadCalls[1], ReadCalls[2], ReadCalls[3], CallGet}
  \/ \E v \in BinVersions \cup {V1191} : call = CallStat(v)

C14_ListOnlyReads ==
  \A p \in Procs :
    inv[p].cmd = "ls" =>
      /\ Untouched(p)
      /\ \A i \in 1..Len(inv[p].calls) : IsReadCall(inv[p].calls[i])
      /\ Gets(inv[p]) <= 1
      /\ ~inv[p].printAll => Gets(inv[p]) = 0
      /\ (inv[p].printAll /\ inv[p].pc = "done" /\ inv[p].err = ErrNil) => Gets(inv[p]) = 1

\* a list of the latest remote versions has returned, having asked go.dev
\* once and looked for the SDK of an installed version, with a symlink set
C14_Witness ==
  \E p \in Procs :
    /\ Finished(p, "ls") /\ inv[p].err = ErrNil
    /\ inv[p].printAll /\ inv[p].only = sLatest
    /\ Gets(inv[p]) = 1
    /\ Issued(inv[p], CallStat(sTip))
    /\ LinkedTo(gobin, sTip)

(***************************************************************************)
(* C15: every line list prints carries the status of its version, chosen   *)
(* in this priority: "(main)" for main, else "(not installed)" for a       *)
(* version outside the installed set, else "(missing SDK)" when its SDK    *)
(* marker is absent, else none; the line starts with "*" exactly when the  *)
(* version is the current one; without -all and without -only the versions *)
(* printed are main and the installed versions, newest first.              *)
(***************************************************************************)
StatusOf(version) ==
  IF version = Main THEN " (main)"
  ELSE IF version \notin InstalledSet(gobin) THEN " (not installed)"
  ELSE IF ~HasMarker(sdk, version) THEN " (missing SDK)"
  ELSE ""

\* the numbers of a release-shaped version, absent ones as zero
NumbersOf(v) ==
  LET comps == Split(ReleaseCore(v), sDot)
  IN  [i \in 1..3 |-> IF i <= Len(comps) THEN DecimalValue(comps[i]) ELSE 0]

TailOf(v) == SubSeq(v, Len(ReleaseCore(v)) + 1, Len(v))

\* x is a newer version than y
Newer(x, y) ==
  IF x = sTip THEN y # sTip
  ELSE IF y = sTip THEN FALSE
  ELSE LET nx == NumbersOf(x)
           ny == NumbersOf(y)
       IN  \/ \E i \in 1..3 : nx[i] > ny[i] /\ \A j \in 1..(i - 1) : nx[j] = ny[j]
           \/ nx = ny /\ TailOf(x) = <<>> /\ TailOf(y) # <<>>
           \/ nx = ny /\ TailOf(y) # <<>> /\ LexGreater(TailOf(x), TailOf(y))

Printed(rec) == [i \in 1..Len(rec.out) |-> rec.out[i][2]]

C15_ListLines ==
  \A p \in Procs :
    (Finished(p, "ls") /\ inv[p].err = ErrNil /\ ~inv[p].faulty) =>
      /\ \A i \in 1..Len(inv[p].out) :
           LET line == inv[p].out[i]
           IN  /\ Len(line) = 3
               /\ line[3] = StatusOf(line[2])
               /\ line[1] = (IF line[2] = Resolved.current THEN "*" ELSE " ")
      /\ (~inv[p].printAll /\ inv[p].only = <<>>) =>
           /\ {inv[p].out[i][2] : i \in 1..Len(inv[p].out)} = InstalledSet(gobin)
           /\ \A i \in 1..Len(inv[p].out) : \A j \in (i + 1)..Len(inv[p].out) :
                ~Newer(inv[p].out[j][2], inv[p].out[i][2])

\* a local list of three versions: tip current and complete, 1.19 without
\* its SDK marker, then main
C15_Witness ==
  \E p \in Procs :
    /\ Finished(p, "ls") /\ ~inv[p].printAll /\ inv[p].only = <<>>
    /\ inv[p].out = <<<<"*", sTip, "">>, <<" ", V119, " (missing SDK)">>, <<" ", Main, " (main)">>>>

(***************************************************************************)
(* C16: with a prefix given by -only, list prints exactly the versions of  *)
(* the selected list (the local list, or with -all the remote one) that    *)
(* start with the prefix, in their order in that list; the value "latest"  *)
(* filters nothing by prefix: the versions printed are those latestPatches *)
(* returns for the whole selected list.                                    *)
(***************************************************************************)
SelectedList(rec) ==
  IF rec.printAll
  THEN <<sTip>> \o [i \in 1..Len(rec.catalog) |-> SubSeq(rec.catalog[i].Version, 3, Len(rec.catalog[i].Version))]
  ELSE rec.local.list

RECURSIVE StartingWith(_, _)
StartingWith(list, prefix) ==
  IF list = <<>> THEN <<>>
  ELSE (IF IsPrefixOf(prefix, Head(list)) THEN <<Head(list)>> ELSE <<>>)
         \o StartingWith(Tail(list), prefix)

C16_ListFilter ==
  \A p \in Procs :
    (Finished(p, "ls") /\ inv[p].err = ErrNil) =>
      Printed(inv[p]) =
        IF inv[p].only = sLatest THEN latestPatches(SelectedList(inv[p]))[2]
        ELSE StartingWith(SelectedList(inv[p]), inv[p].only)

\* a remote list with the prefix 1.19 printed two of the five versions
C16_Witness ==
  \E p \in Procs :
    /\ Finished(p, "ls") /\ inv[p].err = ErrNil
    /\ inv[p].printAll /\ inv[p].only = V119
    /\ Len(SelectedList(inv[p])) = 5
    /\ Printed(inv[p]) = <<V1191, V119>>

\* a local list with the filter "latest" printed every version it holds
C16_WitnessLatest ==
  \E p \in Procs :
    /\ Finished(p, "ls") /\ inv[p].err = ErrNil
    /\ ~inv[p].printAll /\ inv[p].only = sLatest
    /\ Len(Printed(inv[p])) = 3

(***************************************************************************)
(* C17: round trip of use.  When use(X) has returned success for an add-on *)
(* version X, the active symlink points to go<X> in $GOBIN and a fresh     *)
(* resolution of the local state reads X back as the current version; when *)
(* use(main) has returned success, after an earlier use of an add-on       *)
(* version or not, a fresh resolution gives current = main.                *)
(***************************************************************************)
C17_UseRoundTrip ==
  \A p \in Procs :
    (Finished(p, "use") /\ inv[p].err = ErrNil) =>
      /\ Resolved.current = inv[p].version
      /\ inv[p].version \in AddOns => LinkedTo(gobin, inv[p].version)
      /\ inv[p].arg \in {sMain, Main} =>
           (inv[p].version = Main /\ Resolved.current = Main /\ sGo \notin DOMAIN gobin)

\* use(main) has succeeded in a state an earlier use(1.19) had left
C17_Witness ==
  \E p \in Procs :
    /\ Finished(p, "use") /\ inv[p].err = ErrNil /\ inv[p].arg = sMain
    /\ LinkedTo(inv[p].pre.gobin, V119)
    /\ inv[p].local.current = V119
    /\ Issued(inv[p], CallRemoveGo)
    /\ Resolved.current = Main

\* use(tip) has written the symlink while 1.19 was current
C17_WitnessAddOn ==
  \E p \in Procs :
    /\ Finished(p, "use") /\ inv[p].err = ErrNil /\ inv[p].version = sTip
    /\ LinkedTo(inv[p].pre.gobin, V119)
    /\ Issued(inv[p], CallSymlink(sTip))
    /\ Resolved.current = sTip

(***************************************************************************)
(* C18: cutFromPath(path, value).  When value is one of the entries of the *)
(* path (the strings between the separators), the entries of the result    *)
(* are the entries of the path other than value, every occurrence of value *)
(* gone and the others in their order (the empty string when none is       *)
(* left); when value is not an entry the result is the path itself.        *)
(***************************************************************************)
EntriesOf(path) == Split(path, sPathListSeparator)

C18_CutFromPath ==
  cut # <<>> =>
    LET kept == SelectSeq(EntriesOf(cpath), LAMBDA e : e # cvalue)
    IN  IF ~SeqContains(EntriesOf(cpath), cvalue) THEN cut[1] = cpath
        ELSE IF kept = <<>> THEN cut[1] = <<>>
        ELSE EntriesOf(cut[1]) = kept

\* $GOBIN was cut from a path that holds it twice, around another directory
C18_Witness ==
  /\ cut = <<sRootDir>>
  /\ cvalue = sGobinDir
  /\ EntriesOf(cpath) = <<sGobinDir, sRootDir, sGobinDir>>

(***************************************************************************)
(* C19: the exit code of the command is 0 on success (also when the help   *)
(* was asked for), 2 for a usage or flag error (no or an unknown command,  *)
(* an unknown flag, a missing or malformed version), the exit code of the  *)
(* subprocess when a subprocess failed, and 1 for every other error.       *)
(***************************************************************************)
IsSuccess(rec) == rec.err = ErrNil \/ rec.cmd \in {"-h", "ls -h"}

IsUsageError(rec) ==
  \/ rec.cmd \in {"-x", "", "bogus", "ls -x"}
  \/ rec.cmd \in {"use", "rm"} /\ rec.arg = <<>>
  \/ rec.cmd \in {"use", "rm"} /\ ResolvedOk(rec) /\ ~versionRE(rec.version)

IsSubprocessFailure(rec) ==
  /\ rec.faulty /\ rec.calls # <<>>
  /\ rec.calls[Len(rec.calls)][1] = "exec"

C19_ExitCodes ==
  \A p \in Procs :
    (inv[p].pc = "exited" /\ inv[p].err[1] # "panic") =>
      inv[p].code =
        IF IsSuccess(inv[p]) THEN 0
        ELSE IF IsUsageError(inv[p]) THEN 2
        ELSE IF IsSubprocessFailure(inv[p]) THEN inv[p].err[2]
        ELSE 1

(***************************************************************************)
(* C20: a malformed version given to use or remove is reported as a usage  *)
(* error: the message of the error, then the usage text, and exit code 2.  *)
(***************************************************************************)
C20_MalformedIsUsageError ==
  \A p \in Procs :
    (/\ inv[p].pc = "exited" /\ inv[p].cmd \in {"use", "rm"}
     /\ ResolvedOk(inv[p]) /\ ~versionRE(inv[p].version)) =>
      /\ inv[p].code = 2
      /\ Len(inv[p].out) >= 2
      /\ inv[p].out[Len(inv[p].out)] = <<"usage text">>
      /\ inv[p].out[Len(inv[p].out) - 1][1] = "Error"

(***************************************************************************)
(* C21: in use and remove the alias "main" is replaced by the main version *)
(* first and the target is validated against the version grammar then,     *)
(* before any side effect: with the alias the command never ends in        *)
(* "malformed version", and a target outside the grammar ends the command  *)
(* with the error "malformed version" (it returns; it does not crash),     *)
(* with no call besides the three reads of the resolution and with both    *)
(* directories as they were.                                               *)
(***************************************************************************)
TargetOf(rec) == IF rec.arg = sMain THEN Main ELSE rec.arg

C21_ValidatedBeforeSideEffects ==
  \A p \in Procs :
    (inv[p].cmd \in {"use", "rm"} /\ ResolvedOk(inv[p])) =>
      /\ inv[p].version = TargetOf(inv[p])
      /\ inv[p].arg = sMain => inv[p].err[1] # "malformed version"
      /\ ~versionRE(TargetOf(inv[p])) =>
           /\ inv[p].pc \in {"done", "exited"}
           /\ inv[p].err = <<"malformed version", TargetOf(inv[p])>>
           /\ inv[p].calls = ReadCalls
           /\ Untouched(p)

\* rm of a malformed version has returned while an add-on version is current
C21_Witness ==
  \E p \in Procs :
    /\ Finished(p, "rm") /\ inv[p].arg = sBad
    /\ inv[p].err = <<"malformed version", sBad>>
    /\ LinkedTo(gobin, V119)

\* use of the alias went on to remove the symlink
C21_WitnessAlias ==
  \E p \in Procs :
    /\ Finished(p, "use") /\ inv[p].arg = sMain /\ inv[p].err = ErrNil
    /\ Issued(inv[p], CallRemoveGo)

(***************************************************************************)
(* C22: when use and remove invocations run concurrently on the same       *)
(* directories, under every interleaving of their calls the active symlink *)
(* is not left corrupt: once all invocations have finished it is absent or *)
(* it points to a versioned binary that exists.                            *)
(***************************************************************************)
AllFinished == \A p \in Procs : inv[p].pc = "done"

LinkIntact(bin) ==
  \/ sGo \notin DOMAIN bin
  \/ \E X \in AddOns : LinkedTo(bin, X) /\ (sGo \o X) \in DOMAIN bin

C22_LinkNotCorrupt == AllFinished => LinkIntact(gobin)

(***************************************************************************)
(* C23: last writer wins.  When use(X) and use(Y) for two different add-on *)
(* versions run concurrently, once both have finished the active symlink   *)
(* points to the version of the invocation whose symlink call ran last.    *)
(***************************************************************************)
\* both invocations issued their symlink call, p after q, and no call of
\* either met an error of the operating system or a failed subprocess
RanSymlinkLast(p, q) ==
  /\ Issued(inv[p], CallSymlink(inv[p].version))
  /\ Issued(inv[q], CallSymlink(inv[q].version))
  /\ q \in inv[p].symlinkAfter
  /\ ~inv[p].faulty /\ ~inv[q].faulty

C23_LastWriterWins ==
  \A p \in Procs : \A q \in Procs \ {p} :
    (/\ AllFinished
     /\ inv[p].cmd = "use" /\ inv[q].cmd = "use"
     /\ inv[p].version \in AddOns /\ inv[q].version \in AddOns
     /\ inv[p].version # inv[q].version
     /\ RanSymlinkLast(p, q)) =>
      LinkedTo(gobin, inv[p].version)


(***************************************************************************)
(* C24: cancellation.  When the context is cancelled while use waits for   *)
(* the `go version`, `go install` or download subprocess, or ls for the    *)
(* request to go.dev, the command eventually terminates with an error and  *)
(* the interrupted call is the last step it performs; a use interrupted    *)
(* during install or download issues neither the removal nor the creation  *)
(* of the active symlink.                                                  *)
(***************************************************************************)
BlockingCall(rec) ==
  CASE rec.cancelledAt = "version" -> <<"exec", "go version">>
    [] rec.cancelledAt = "install" -> CallInstall(rec.version)
    [] rec.cancelledAt = "download" -> CallDownload(rec.version)
    [] OTHER -> CallGet

\* the interrupt reached the invocation of p at one of the blocking calls
CancelledBlocked(p) ==
  /\ inv[p].ctx = "cancelled"
  /\ \/ inv[p].cmd = "use" /\ inv[p].cancelledAt \in {"version", "install", "download"}
     \/ inv[p].cmd = "ls" /\ inv[p].cancelledAt = "http"

TerminatedWithError(p) == inv[p].pc \in {"done", "exited"} /\ inv[p].err # ErrNil

C24_NoLaterStep ==
  \A p \in Procs :
    CancelledBlocked(p) /\ inv[p].pc # inv[p].cancelledAt =>
      /\ TerminatedWithError(p)
      /\ inv[p].calls[Len(inv[p].calls)] = BlockingCall(inv[p])
      /\ inv[p].cancelledAt \in {"install", "download"} =>
            /\ ~Issued(inv[p], CallRemoveGo)
            /\ ~Issued(inv[p], CallSymlink(inv[p].version))

C24_Cancellation ==
  /\ []C24_NoLaterStep
  /\ \A p \in Procs : CancelledBlocked(p) ~> TerminatedWithError(p)

C24_Witness ==
  \E p \in Procs :
    /\ CancelledBlocked(p) /\ inv[p].cancelledAt = "download"
    /\ inv[p].pc = "exited"
    /\ inv[p].err # ErrNil
    /\ Issued(inv[p], CallInstall(inv[p].version))
    /\ ~Issued(inv[p], CallRemoveGo)

C24_WitnessList ==
  \E p \in Procs :
    /\ CancelledBlocked(p) /\ inv[p].cancelledAt = "http"
    /\ inv[p].pc = "exited"
    /\ inv[p].out # <<>>


(***************************************************************************)
(* C25: convergent retry of rm.  After rm of a version has aborted on an   *)
(* error partway (the symlink removed but not the binary, or the binary    *)
(* removed but not the SDK subtree), rm of the same version in which every *)
(* step succeeds leaves neither the versioned binary nor the SDK subtree.  *)
(***************************************************************************)
LastCall(rec) == rec.calls[Len(rec.calls)]

\* the first rm has removed the symlink and failed at the binary
AbortedAtBinary(rec) ==
  /\ rec.cmd = "rm" /\ rec.pc = "done" /\ rec.err # ErrNil
  /\ Issued(rec, CallRemoveGo)
  /\ LastCall(rec) = CallRemoveBin(rec.version)

\* the first rm has removed the binary and failed at the SDK subtree
AbortedAtSdk(rec) ==
  /\ rec.cmd = "rm" /\ rec.pc = "done" /\ rec.err # ErrNil
  /\ LastCall(rec) = CallRemoveAll(rec.version)

\* the second rm has returned and none of its steps has failed
RetriedCleanly(rec) ==
  /\ rec.cmd = "rm" /\ rec.pc = "done"
  /\ ~rec.faulty /\ ResolvedOk(rec)

Removed(version) ==
  /\ (sGo \o version) \notin DOMAIN gobin
  /\ (sGo \o version) \notin DOMAIN sdk

C25_RetryConverges ==
  (AbortedAtBinary(inv[1]) \/ AbortedAtSdk(inv[1])) /\ RetriedCleanly(inv[2])
    => Removed(inv[1].version)


(***************************************************************************)
(* C26: the remote list.  For an answer of n entries remoteVersions        *)
(* returns n + 1 versions: "tip" first, then the version of every entry of *)
(* the answer without its prefix "go", in the order of the answer, stable  *)
(* or not; when the request or the decoding fails, ls returns the error    *)
(* and has no list.                                                        *)
(***************************************************************************)
\* the catalog request of the invocation has been answered and decoded
GotCatalog(rec) == rec.cmd = "ls" /\ rec.printAll /\ rec.pc = "print"

\* the catalog request of the invocation has failed and list has returned
CatalogFailed(rec) ==
  /\ rec.cmd = "ls" /\ rec.pc = "done"
  /\ rec.faulty /\ LastCall(rec) = CallGet

C26_RemoteList ==
  \A p \in Procs :
    /\ GotCatalog(inv[p]) =>
         /\ Len(inv[p].versions) = Len(inv[p].catalog) + 1
         /\ inv[p].versions[1] = sTip
         /\ \A i \in 1..Len(inv[p].catalog) :
              sGo \o inv[p].versions[i + 1] = inv[p].catalog[i].Version
    /\ CatalogFailed(inv[p]) =>
         /\ inv[p].err \in {<<"net">>, <<"decode">>}
         /\ inv[p].versions = <<>>
         /\ Printed(inv[p]) = <<>>

\* an answer of four entries, the first of them not stable, gave five versions
C26_Witness ==
  \E p \in Procs :
    /\ GotCatalog(inv[p])
    /\ Len(inv[p].catalog) = 4 /\ ~inv[p].catalog[1].Stable
    /\ inv[p].versions = <<sTip, V120rc1, V1191, V119, Main>>

\* the answer could not be decoded
C26_WitnessFailure ==
  \E p \in Procs : CatalogFailed(inv[p]) /\ inv[p].err = <<"decode">>


(***************************************************************************)
(* C27: the main version is resolved by `go version` on a search path      *)
(* without $GOBIN and without the directory bin of an SDK that a switched  *)
(* version has put into PATH, so that the resolved main version is the one *)
(* of the pristine toolchain whichever version is active.                  *)
(***************************************************************************)
\* `go version` of the invocation has answered in the expected format
MainResolved(rec) == rec.pc \notin {"idle", "version"} /\ rec.local.main # <<>>

C27_MainIsPristine ==
  \A p \in Procs : MainResolved(inv[p]) => inv[p].local.main = Main


(***************************************************************************)
(* C28: the output of `go version` is accepted only when it has the four   *)
(* tokens "go version go<V> <platform>", and then V is the main version;   *)
(* an output with another number of tokens is rejected with the error      *)
(* "unexpected format".                                                    *)
(***************************************************************************)
\* the number of tokens of a line: one more than its spaces
Tokens(line) == Cardinality({i \in 1..Len(line) : <<line[i]>> = sSpace}) + 1

\* `go version` of the invocation has returned an output
Answered(rec) == rec.output # <<>>

sGoVersion == sGo \o sSpace \o <<"v", "e", "r", "s", "i", "o", "n">> \o sSpace

C28_WitnessRejected ==
  \E p \in Procs :
    /\ Answered(inv[p]) /\ Tokens(inv[p].output) = 5
    /\ inv[p].pc = "done" /\ inv[p].err = <<"unexpected format">>


(***************************************************************************)
(* C29: the installed list of a resolution is a set: it holds main, also   *)
(* without a binary named after main, and the version of every entry of    *)
(* $GOBIN that is not a directory and is named after a valid version, and  *)
(* it holds no version twice, also when the binary go<main> exists.        *)
(***************************************************************************)
ElementsOf(list) == {list[i] : i \in 1..Len(list)}

NoDuplicates(list) == \A i, j \in 1..Len(list) : list[i] = list[j] => i = j

C29_InstalledIsSet ==
  \A p \in Procs :
    ResolvedOk(inv[p]) =>
      /\ ElementsOf(inv[p].local.list) = InstalledSet(inv[p].pre.gobin)
      /\ NoDuplicates(inv[p].local.list)


(***************************************************************************)
(* C30: the resolution of the local state changes PATH only for its own    *)
(* duration: whichever way it returns, with a result or with an error,     *)
(* PATH is again what it was before, so that the install and download      *)
(* subprocesses that follow run with the PATH the tool was started with.   *)
(***************************************************************************)
\* the invocation is inside localVersions, past the change of PATH
Resolving(rec) == rec.pc \in {"readlink", "readdir"}

C30_PathRestored ==
  \A p \in Procs : ~Resolving(inv[p]) => inv[p].PATH = inv[p].envPath

\* use is about to run `go install`, after a resolution that had taken
\* $GOBIN out of PATH
C30_Witness ==
  \E p \in Procs :
    /\ inv[p].pc = "install"
    /\ Issued(inv[p], <<"exec", "go version">>)
    /\ cutFromPath(inv[p].envPath, GOBIN) # inv[p].envPath
    /\ inv[p].PATH = inv[p].envPath

\* the resolution has returned an error of the symlink read
C30_WitnessError ==
  \E p \in Procs :
    /\ inv[p].pc = "done" /\ inv[p].faulty
    /\ LastCall(inv[p]) = <<"bin.Readlink", sGo>>
    /\ inv[p].PATH = inv[p].envPath

\* inside the resolution PATH is without $GOBIN
C30_WitnessInside ==
  \E p \in Procs : Resolving(inv[p]) /\ inv[p].PATH = cutFromPath(inv[p].envPath, GOBIN)
                                     /\ inv[p].PATH # inv[p].envPath


(***************************************************************************)
(* C31: every command first resolves the local state, by `go version`, the *)
(* read of the symlink and the listing of $GOBIN in this order; when       *)
(* `go version`, the read of the symlink (with an error other than "not    *)
(* found") or the listing fails, the command returns that error and has    *)
(* issued no other call; a symlink that is not found is no error and makes *)
(* the main version the current one.                                       *)
(***************************************************************************)
\* the invocation has returned out of localVersions with an error
ResolutionFailed(rec) ==
  /\ rec.cmd \in {"use", "rm", "ls"} /\ rec.pc \in {"done", "exited"}
  /\ rec.calls # <<>> /\ ~ResolvedOk(rec)

\* the read of the symlink of the invocation has returned without an error
LinkRead(rec) == rec.pc = "readdir" \/ ResolvedOk(rec)

C31_ResolutionFirst ==
  \A p \in Procs :
    /\ IsPrefixOf(inv[p].calls, ReadCalls) \/ IsPrefixOf(ReadCalls, inv[p].calls)
    /\ ResolutionFailed(inv[p]) =>
         /\ inv[p].err # ErrNil
         /\ IsPrefixOf(inv[p].calls, ReadCalls)
         /\ Untouched(p)
    /\ (LinkRead(inv[p]) /\ sGo \notin DOMAIN inv[p].pre.gobin) =>
         inv[p].local.current = inv[p].local.main

\* rm has returned the error of the listing, after the three reads
C31_Witness ==
  \E p \in Procs :
    /\ ResolutionFailed(inv[p]) /\ inv[p].cmd = "rm"
    /\ inv[p].calls = ReadCalls /\ inv[p].err = <<"io">>

\* without a symlink use has resolved the main version as the current one
C31_WitnessNotFound ==
  \E p \in Procs :
    /\ inv[p].cmd = "use" /\ ResolvedOk(inv[p])
    /\ sGo \notin DOMAIN inv[p].pre.gobin
    /\ inv[p].local.current = Main
    /\ Issued(inv[p], CallInstall(V119))


(***************************************************************************)
(* C32: when rm has removed the versioned binary and the removal of the    *)
(* SDK subtree fails, rm returns that error, prints no "Removed" and the   *)
(* binary stays removed; when the removal of the binary fails, rm returns  *)
(* before the SDK subtree is touched.                                      *)
(***************************************************************************)
Says(rec, word) == \E i \in 1..Len(rec.out) : rec.out[i][1] = word

\* rm has returned an error from the call it issued last
RmFailedAt(rec, call) ==
  /\ rec.cmd = "rm" /\ rec.pc = "done" /\ rec.err # ErrNil
  /\ rec.calls # <<>> /\ LastCall(rec) = call

C32_NoRollback ==
  \A p \in Procs :
    LET rec == inv[p]
        bin == sGo \o rec.version
    IN  /\ RmFailedAt(rec, CallRemoveAll(rec.version)) =>
             /\ rec.err = <<"io">>
             /\ ~Says(rec, "Removed")
             /\ bin \in DOMAIN rec.pre.gobin
             /\ bin \notin DOMAIN gobin
        /\ RmFailedAt(rec, CallRemoveBin(rec.version)) =>
             /\ ~Says(rec, "Removed")
             /\ ~Issued(rec, CallRemoveAll(rec.version))
             /\ bin \in DOMAIN gobin
             /\ sdk = rec.pre.sdk

\* the removal of the SDK of 1.19 has failed halfway: the binary is gone
\* and the subtree is left without its marker
C32_Witness ==
  \E p \in Procs :
    /\ RmFailedAt(inv[p], CallRemoveAll(V119))
    /\ (sGo \o V119) \notin DOMAIN gobin
    /\ (sGo \o V119) \in DOMAIN sdk /\ sdk # inv[p].pre.sdk

\* the removal of the binary has failed
C32_WitnessBinary ==
  \E p \in Procs :
    /\ RmFailedAt(inv[p], CallRemoveBin(V119))
    /\ HasMarker(sdk, V119)


(***************************************************************************)
(* C33: latestPatches panics on a list that is not sorted in the version   *)
(* order (some entry sorts before an entry that precedes it in the list)   *)
(* and returns no result computed from such a list.                        *)
(***************************************************************************)
\* x comes before y in the version order: tip first, then as in C12
Before(x, y) ==
  IF x = sTip \/ y = sTip THEN x = sTip /\ y # sTip
  ELSE SortsFirst(parseVersion(x), parseVersion(y))

Unsorted(list) ==
  \E i, j \in 1..Len(list) : i < j /\ Before(list[j], list[i])

C34_LinkIsUsable ==
  sGo \in DOMAIN gobin =>
    \E X \in BinVersions :
      /\ LinkedTo(gobin, X)
      /\ (sGo \o X) \in DOMAIN gobin
      /\ HasMarker(sdk, X)

\* the symlink points to tip while rm of 1.19 has failed at the SDK subtree
C34_Witness ==
  /\ LinkedTo(gobin, sTip)
  /\ \E p \in Procs : RmFailedAt(inv[p], CallRemoveAll(V119))


(***************************************************************************)
(* C35: when use fails in the install or in the download subprocess, the   *)
(* active symlink is as it was before the invocation; and no use, whether  *)
(* it succeeds or fails, removes a versioned binary or an SDK subtree.     *)
(***************************************************************************)
\* the entry of the active symlink in a binary directory, if any
LinkOf(bin) == IF sGo \in DOMAIN bin THEN <<bin[sGo]>> ELSE <<>>

\* use has returned an error from the subprocess it started last
UseFailedAt(rec, call) ==
  /\ rec.cmd = "use" /\ rec.pc = "done" /\ rec.err # ErrNil
  /\ rec.calls # <<>> /\ LastCall(rec) = call

C35_UseKeepsVersions ==
  \A p \in Procs :
    LET rec == inv[p]
    IN  /\ (UseFailedAt(rec, CallInstall(rec.version)) \/ UseFailedAt(rec, CallDownload(rec.version)))
             => LinkOf(gobin) = LinkOf(rec.pre.gobin)
        /\ (rec.cmd = "use" /\ rec.calls # <<>>) =>
             /\ (DOMAIN rec.pre.gobin) \ {sGo} \subseteq DOMAIN gobin
             /\ DOMAIN rec.pre.sdk \subseteq DOMAIN sdk
             /\ \A v \in BinVersions :
                  ~Issued(rec, CallRemoveBin(v)) /\ ~Issued(rec, CallRemoveAll(v))

\* the download of 1.19 has failed while the symlink points to tip
C35_Witness ==
  \E p \in Procs :
    /\ UseFailedAt(inv[p], CallDownload(V119))
    /\ LinkedTo(gobin, sTip)

\* use of 1.19 has succeeded and has replaced the symlink to tip, whose
\* binary and SDK are still there
C35_WitnessSuccess ==
  \E p \in Procs :
    /\ inv[p].cmd = "use" /\ inv[p].pc = "done" /\ inv[p].err = ErrNil
    /\ LinkedTo(inv[p].pre.gobin, sTip) /\ LinkedTo(gobin, V119)
    /\ (sGo \o sTip) \in DOMAIN gobin /\ HasMarker(sdk, sTip)


(***************************************************************************)
(* C36: ls with the filter "latest" never panics on a list the tool has    *)
(* built itself: the sorted local list of every local state, also one      *)
(* with a binary named after main, passes the sortedness check of          *)
(* latestPatches, and so does the remote list, "tip" followed by the       *)
(* answer of go.dev.                                                       *)
(***************************************************************************)
Panicked(rec) == rec.err[1] = "panic"

C36_LatestNeverPanics ==
  \A p \in Procs :
    (inv[p].cmd = "ls" /\ inv[p].only = sLatest) => ~Panicked(inv[p])


(***************************************************************************)
(* C37: after use of X has returned, with success or with the error of any *)
(* step, the current version a fresh resolution finds is the current       *)
(* version of before the invocation, main, or X; and it is X exactly when  *)
(* use has returned success.                                               *)
(***************************************************************************)
CurrentIn(bin) == currentOf(Main, Readlink(bin, sGo))

\* use of a version has returned
UseReturned(rec) == rec.cmd = "use" /\ rec.pc = "done" /\ rec.calls # <<>>

C37_CurrentAfterUse ==
  \A p \in Procs :
    UseReturned(inv[p]) =>
      /\ CurrentIn(gobin) \in {CurrentIn(inv[p].pre.gobin), Main, TargetOf(inv[p])}
      /\ CurrentIn(gobin) = TargetOf(inv[p]) <=> inv[p].err = ErrNil

(***************************************************************************)
(* C37, amended: after use of X has returned, the current version is the   *)
(* one of before the invocation, main, or X; it is X when use has returned *)
(* success, and when use has returned an error it is X only if X was the   *)
(* current version before the invocation.                                  *)
(***************************************************************************)
C37_CurrentAfterUseAmended ==
  \A p \in Procs :
    UseReturned(inv[p]) =>
      /\ CurrentIn(gobin) \in {CurrentIn(inv[p].pre.gobin), Main, TargetOf(inv[p])}
      /\ inv[p].err = ErrNil => CurrentIn(gobin) = TargetOf(inv[p])
      /\ (inv[p].err # ErrNil /\ CurrentIn(gobin) = TargetOf(inv[p]))
           => CurrentIn(inv[p].pre.gobin) = TargetOf(inv[p])

\* use of 1.19 has failed at the symlink with tip current before: main is
\* the current version now
C37_Witness ==
  \E p \in Procs :
    /\ UseReturned(inv[p]) /\ inv[p].err # ErrNil
    /\ TargetOf(inv[p]) = V119 /\ LastCall(inv[p]) = CallSymlink(V119)
    /\ CurrentIn(inv[p].pre.gobin) = sTip /\ CurrentIn(gobin) = Main

\* use of the current version 1.19 has failed in `go version`
C37_WitnessStillCurrent ==
  \E p \in Procs :
    /\ UseReturned(inv[p]) /\ inv[p].err # ErrNil
    /\ TargetOf(inv[p]) = V119 /\ CurrentIn(gobin) = V119


(***************************************************************************)
(* C38: rm of an installed add-on version X that is not the current one    *)
(* leaves the active symlink as it is, touches nothing but the versioned   *)
(* binary go<X> and the SDK subtree go<X>, and removes both, also when the *)
(* SDK of X has no marker.                                                 *)
(***************************************************************************)
\* rm of p is for an installed add-on version that is not the current one
RemovesOther(p) ==
  /\ inv[p].cmd = "rm" /\ ResolvedOk(inv[p])
  /\ inv[p].version \in AddOns
  /\ inv[p].version # inv[p].local.current
  /\ contains(inv[p].local, inv[p].version)

\* two directories agree on every name but the given one
SameBut(f, g, name) ==
  /\ (DOMAIN f) \ {name} = (DOMAIN g) \ {name}
  /\ \A n \in (DOMAIN f) \ {name} : f[n] = g[n]

C38_RemoveOther ==
  \A p \in Procs :
    RemovesOther(p) =>
      LET X == inv[p].version
      IN  /\ LinkOf(gobin) = LinkOf(inv[p].pre.gobin)
          /\ SameBut(gobin, inv[p].pre.gobin, sGo \o X)
          /\ SameBut(sdk, inv[p].pre.sdk, sGo \o X)
          /\ ~Issued(inv[p], CallRemoveGo)
          /\ (inv[p].pc = "done" /\ inv[p].err = ErrNil) =>
               /\ Removed(X)
               /\ Says(inv[p], "Removed")

\* 1.19, whose SDK directory had no marker, has been removed while tip is
\* the current version
C38_Witness ==
  \E p \in Procs :
    /\ RemovesOther(p) /\ inv[p].version = V119
    /\ inv[p].pc = "done" /\ inv[p].err = ErrNil
    /\ (sGo \o V119) \in DOMAIN inv[p].pre.sdk /\ ~HasMarker(inv[p].pre.sdk, V119)
    /\ LinkedTo(gobin, sTip) /\ Removed(V119)

====
